---- MODULE Spec2Model ----
(***************************************************************************)
(* Crypto payment reconciliation core of the storefront bot:               *)
(*   src/payment_solana.py  wallet scan, settlement, sweep                 *)
(*   src/utils.py           pending deposits, reservation release,         *)
(*                          timeout cleaner, recovery job, basket sweeps   *)
(*                                                                         *)
(* Units: time in minutes, on-chain balances in lamports, expected amounts *)
(* in units of 0.00001 SOL (the quantum create_solana_payment rounds to).  *)
(***************************************************************************)
EXTENDS Integers, Sequences, FiniteSets, TLC

\* ------------------------------------------------------------------ bounds

\* The clock stops this many minutes after the start of the run.
MaxElapsed == 125
\* Cap on the number of underpayment credits counted per wallet.
MaxCredits == 2
\* Caps on the counts of stuck and of recent purchase orders a health check reads.
MaxStuck == 6
MaxRecent == 3
\* Cap on the attempts counted on a queue row.
MaxAttemptsCounted == 6

\* --------------------------------------------------------- program constants

LAMPORTS_PER_SOL == 1000000000
\* Decimal("0.00001") in lamports: one unit of expected_amount.
LamportsPerUnit == LAMPORTS_PER_SOL \div 100000
\* Decimal("0.97") as a percentage.
TolerancePercent == 97
\* Decimal("0.0005") SOL in lamports.
OverpayDustLamports == LAMPORTS_PER_SOL \div 2000
WalletExpiryMinutes == 20
\* payment_queue.max_attempts INTEGER DEFAULT 5
QUEUE_MAX_ATTEMPTS == 5
\* 'is_healthy': stuck_payments < 5 and recent_payments > 0
STUCK_PAYMENTS_LIMIT == 5
SweepDustLamports == 5000
SweepFeeLamports == 5000
PAYMENT_TIMEOUT_MINUTES == 120
RecoveryGraceMinutes == 10
ABANDONED_RESERVATION_TIMEOUT_MINUTES == 30
BASKET_TIMEOUT_MINUTES == 15
ENABLE_AUTO_SWEEP == TRUE
\* SOLANA_ADMIN_WALLET is taken as configured.
ADMIN_WALLET == TRUE

MinutesPerDay == 24 * 60
\* The run starts ten minutes before midnight UTC, so that both sides of the
\* date line are reached.
StartNow == MinutesPerDay - 10

\* ------------------------------------------------------------------ domains

Orders == {"o1", "o2"}
\* The order the settlement specification drives.
MainOrders == {"o1"}
Products == {"p1", "p2"}
Workers == {"w1", "w2"}
\* basket_snapshot values: lists of line items, each a product id.
Snapshots == {<<"p1">>, <<"p1", "p2">>}
\* expected_amount of the orders created, in units of 0.00001 SOL.
ExpectedUnits == 100
\* Balances a payer can bring a wallet to (lamports): just below the
\* tolerance boundary, the boundary itself, an overpayment above the
\* overpayment dust threshold.
PayLevels == {(ExpectedUnits * LamportsPerUnit * TolerancePercent) \div 100 - 1,
              (ExpectedUnits * LamportsPerUnit * TolerancePercent) \div 100,
              ExpectedUnits * LamportsPerUnit + OverpayDustLamports + 100000}
\* Clock steps in minutes.
TickSteps == {25, 100}
\* Spot prices in EUR per SOL; 0 stands for "no price" (None).
SpotPrices == {0, 100}

VARIABLES
    now,               \* wall clock, minutes
    sharedLoop,        \* TRUE: the scan passes run in one event loop and share _PAYMENT_PROCESS_LOCK
    solana_wallets,    \* table solana_wallets, keyed by order_id
    pending_deposits,  \* table pending_deposits, keyed by payment_id
    reserved,          \* products.reserved
    chain,             \* on-chain balance of each wallet
    scan,              \* per scan pass: position and results in flight
    lock,              \* holder of _PAYMENT_PROCESS_LOCK
    sweeps,            \* sweep_wallet tasks created and not yet run
    removal,           \* remove_pending_deposit calls in flight (non-success triggers)
    cleaner,           \* clean_expired_pending_payments: records still to process
    recovery,          \* run_payment_recovery_job: payments still to process
    hist,              \* per order: how often each callback / write happened
    basket,            \* users.basket of a shopper: entries "product_id:timestamp"
    tracking,          \* _reservation_timestamps[user_id] of a shopper
    basketJob,         \* clear_all_expired_baskets: what it fetched and still has to write
    checked,           \* the last call of _check_single_wallet: its inputs and result
    price_cache,       \* _price_cache of the running process
    bot_settings,      \* table bot_settings, row 'sol_price_eur_cache'
    price_call,        \* the last call of get_sol_price_eur: what it consulted and returned
    wallet_rows,       \* per order_id: the public keys of its rows in solana_wallets
    issue,             \* per caller of create_solana_payment: position, locals, return value
    checks,            \* per scan pass: _check_single_wallet tasks waiting and in flight
    sweep_log,         \* the last sweep_wallet call on its own: its inputs and what it did
    health,            \* the last health check: the counts it read, its status, the alert
    payment_queue,     \* table payment_queue, per payment_id (UNIQUE): status and attempts
    queue_hist         \* per payment_id: was it ever completed, was it returned after that

basketVars == <<basket, tracking, basketJob>>
priceVars == <<price_cache, bot_settings, price_call>>
issueVars == <<wallet_rows, issue>>
queueVars == <<payment_queue, queue_hist>>
auxVars == <<sweep_log, health, queueVars>>
extVars == <<priceVars, issueVars, checks, auxVars>>
settleVars == <<sharedLoop, solana_wallets, pending_deposits, reserved, chain, scan, lock,
                sweeps, removal, cleaner, recovery, hist>>
vars == <<now, sharedLoop, solana_wallets, pending_deposits, reserved, chain,
          scan, lock, sweeps, removal, cleaner, recovery, hist, basketVars, checked,
          extVars>>


\* ------------------------------------------------------------------ helpers

Max(a, b) == IF a >= b THEN a ELSE b

\* Counter(item['product_id'] for item in basket_snapshot)[p]
CountOf(snapshot, p) == Cardinality({i \in 1..Len(snapshot) : snapshot[i] = p})

NoWallet == [status |-> "none", expected_amount |-> 0, amount_received |-> 0,
             created_at |-> 0]
NoDeposit == [present |-> FALSE, is_purchase |-> FALSE, basket_snapshot |-> <<>>,
              discount_code_used |-> "-", target_eur_amount |-> 0, created_at |-> 0]
\* The success callback a settlement awaited: its kind, the order row it was
\* chosen from, and its arguments.
NoCallback == [kind |-> "none", row |-> NoDeposit, snapshot |-> <<>>,
               discount |-> "-", amount |-> 0]
NoResult == [action |-> "none", order |-> "-", lamports |-> 0, expected |-> 0]
NoHist == [acquired |-> 0, delivered |-> 0, refill_credits |-> 0,
           overpay_credits |-> 0, underpay_credits |-> 0, paid_writes |-> 0,
           released |-> 0, released_by |-> "-", recovery_calls |-> 0,
           overpay_price |-> -1, overpay_cents |-> 0, credit_failed |-> FALSE,
           write_failures |-> 0, lookup_failed |-> FALSE, callback_failed |-> FALSE,
           callback |-> NoCallback, order_missing |-> FALSE]
IdleScan == [pc |-> "idle", results |-> {}, cur |-> NoResult, skipped |-> {}]
IdleRemoval == [pc |-> "idle", order |-> "-", trigger |-> "-", info |-> NoDeposit,
                deleted |-> FALSE]
Callers == {"cleaner", "cancel"}
NoTracking == [present |-> FALSE, timestamp |-> 0, snapshot |-> <<>>]
\* _price_cache = {'price': None, 'timestamp': 0, 'last_api_used': None}; None is 0
\* for the price and -1 for the index.
EmptyPriceCache == [price |-> 0, timestamp |-> 0, last_api_used |-> -1]
NoSettingRow == [present |-> FALSE, setting_value |-> 0, updated_at |-> 0]
\* The last refresh_price_cache run: whether it got a price, and the cache as
\* it was when the run started.
NoRefresh == [done |-> FALSE, ok |-> FALSE, before |-> EmptyPriceCache]
NoPriceCall == [done |-> FALSE, memory_fresh |-> FALSE, saved_age |-> -1,
                saved_at |-> -1, live |-> <<>>, source |-> "none",
                result |-> 0, restarted |-> FALSE,
                origin |-> -1, result_age |-> -1, prev_api |-> -1,
                prev_supplier |-> -1, last_supplier |-> -1, refresh |-> NoRefresh]
NoChecks == [waiting |-> 0, checking |-> 0]
Issuers == {"a", "b"}
NoReturn == [status |-> "none", error |-> "-", pay_address |-> <<>>, pay_amount |-> 0]
IdleIssue == [pc |-> "idle", order |-> "-", eur |-> 0, price |-> 0, expected |-> 0,
              key |-> <<>>, calls |-> 0, existed |-> FALSE, ret |-> NoReturn]
NoCheck == [done |-> FALSE, lamports |-> 0, expected |-> 0, age |-> 0,
            action |-> "none"]
IdleBasketJob == [pc |-> "idle", new_basket |-> <<>>,
                  expired_counts |-> [p \in Products |-> 0]]

\* payment_queue: no row for a payment_id, and the row queue_payment_action writes.
PaymentIds == {"pay1", "pay2"}
NoQueueRow == [present |-> FALSE, status |-> "-", attempts |-> 0]
NoQueueHist == [completed |-> FALSE, returned_after |-> FALSE]

\* The value of health before any health check.
NoHealth == [done |-> FALSE, db_ok |-> FALSE, stuck_payments |-> 0, recent_payments |-> 0,
             admin |-> FALSE, is_healthy |-> FALSE, alert |-> FALSE]

\* The result of a sweep_wallet call that did nothing (its balance read failed).
NoSweepRun == [balance |-> -1, transfers |-> <<>>, sent |-> FALSE, swept |-> FALSE]

\* The value of sweep_log before any call.
NoSweepLog == [done |-> FALSE, status |-> "-", given |-> 0, balance |-> 0,
               blockhash_ok |-> FALSE, run |-> NoSweepRun]

Bump(o, field) == [hist EXCEPT ![o][field] = @ + 1]

Init ==
    /\ now = StartNow
    /\ sharedLoop \in BOOLEAN
    /\ solana_wallets = [o \in Orders |-> NoWallet]
    /\ pending_deposits = [o \in Orders |-> NoDeposit]
    /\ reserved = [p \in Products |-> 0]
    /\ chain = [o \in Orders |-> 0]
    /\ scan = [w \in Workers |-> IdleScan]
    /\ lock = "free"
    /\ sweeps = {}
    /\ removal = [c \in Callers |-> IdleRemoval]
    /\ cleaner = {}
    /\ recovery = {}
    /\ hist = [o \in Orders |-> NoHist]
    /\ basket = <<>>
    /\ tracking = NoTracking
    /\ basketJob = IdleBasketJob
    /\ checked = NoCheck
    /\ price_cache = EmptyPriceCache
    /\ bot_settings = NoSettingRow
    /\ price_call = NoPriceCall
    /\ wallet_rows = [o \in Orders |-> {}]
    /\ issue = [c \in Issuers |-> IdleIssue]
    /\ checks = [w \in Workers |-> NoChecks]
    /\ sweep_log = NoSweepLog
    /\ health = NoHealth
    /\ payment_queue = [id \in PaymentIds |-> NoQueueRow]
    /\ queue_hist = [id \in PaymentIds |-> NoQueueHist]

\* ------------------------------------------------------- order creation

\* INSERT INTO solana_wallets (..., expected_amount, status) VALUES (..., 'pending')
InsertWallet(o, expected) ==
    [solana_wallets EXCEPT ![o] = [status |-> "pending", expected_amount |-> expected,
                                   amount_received |-> 0, created_at |-> now]]

\* The discount code and the fiat amount (cents) an order is placed with.
DiscountCode == "SAVE10"
TargetEurCents == 100

\* add_pending_deposit: one row per in-flight order, created_at = now.
AddPendingDeposit(o, purchase, snapshot) ==
    [pending_deposits EXCEPT ![o] = [present |-> TRUE, is_purchase |-> purchase,
                                     basket_snapshot |-> snapshot,
                                     discount_code_used |-> IF purchase THEN DiscountCode
                                                            ELSE "-",
                                     target_eur_amount |-> TargetEurCents,
                                     created_at |-> now]]

\* The basket subsystem's acquire: one hold per line item of the snapshot.
AcquireHolds(snapshot) ==
    [p \in Products |-> reserved[p] + CountOf(snapshot, p)]

\* create_order: a wallet, an order row, and (purchase) the holds of its snapshot.
CreateOrder(o, purchase, snapshot) ==
    /\ solana_wallets[o].status = "none"
    /\ ~pending_deposits[o].present
    /\ solana_wallets' = InsertWallet(o, ExpectedUnits)
    /\ pending_deposits' = AddPendingDeposit(o, purchase, snapshot)
    /\ reserved' = AcquireHolds(snapshot)
    /\ hist' = IF purchase THEN Bump(o, "acquired") ELSE hist
    /\ UNCHANGED <<now, sharedLoop, chain, scan, lock, sweeps, removal, cleaner,
                   recovery>>
    /\ UNCHANGED <<basketVars, checked, extVars>>

\* ------------------------------------------------------- environment

Tick(d) ==
    /\ now + d <= StartNow + MaxElapsed
    /\ now' = now + d
    /\ UNCHANGED <<sharedLoop, solana_wallets, pending_deposits, reserved, chain,
                   scan, lock, sweeps, removal, cleaner, recovery, hist>>
    /\ UNCHANGED <<basketVars, checked, extVars>>

\* A payer sends funds to the address of a wallet still open: the balance rises
\* to level v.
Deposit(o, v) ==
    /\ solana_wallets[o].status = "pending"
    /\ v > chain[o]
    /\ chain' = [chain EXCEPT ![o] = v]
    /\ UNCHANGED <<now, sharedLoop, solana_wallets, pending_deposits, reserved,
                   scan, lock, sweeps, removal, cleaner, recovery, hist>>
    /\ UNCHANGED <<basketVars, checked, extVars>>

\* ------------------------------------------------------- deposit scanner

\* _check_single_wallet with the expiry window compared with >=.
CheckSingleWalletExpiryInclusive(lamports, expected, created_at, t) ==
    IF lamports > 0
       /\ lamports * 100 >= expected * LamportsPerUnit * TolerancePercent
    THEN "paid"
    ELSE IF lamports > 0
    THEN "underpaid"
    ELSE IF t - created_at >= WalletExpiryMinutes
    THEN "expired"
    ELSE "none"

\* _check_single_wallet with a strict comparison against the tolerance.
CheckSingleWalletStrict(lamports, expected, created_at, t) ==
    IF lamports > 0
       /\ lamports * 100 > expected * LamportsPerUnit * TolerancePercent
    THEN "paid"
    ELSE IF lamports > 0
    THEN "underpaid"
    ELSE IF t - created_at > WalletExpiryMinutes
    THEN "expired"
    ELSE "none"

\* _check_single_wallet, after a successful balance read: the action of the
\* result, "none" for no result.  sol_balance = lamports / 10**9 and
\* expected * Decimal("0.97") are exact decimals, compared here in
\* hundredths of a lamport.
CheckSingleWallet(lamports, expected, created_at, t) ==
    IF lamports > 0
       /\ lamports * 100 >= expected * LamportsPerUnit * TolerancePercent
    THEN "paid"
    ELSE IF lamports > 0
    THEN "underpaid"
    ELSE IF t - created_at > WalletExpiryMinutes
    THEN "expired"
    ELSE "none"

ResultOf(o) ==
    [action |-> CheckSingleWallet(chain[o], solana_wallets[o].expected_amount,
                                  solana_wallets[o].created_at, now),
     order |-> o, lamports |-> chain[o],
     expected |-> solana_wallets[o].expected_amount]

\* One call of _check_single_wallet whose balance read succeeds, for a wallet
\* with the given expected_amount and created_at and the given balance.
CheckWallet(lamports, expected, created_at) ==
    /\ checked' = [done |-> TRUE, lamports |-> lamports, expected |-> expected,
                   age |-> now - created_at,
                   action |-> CheckSingleWallet(lamports, expected, created_at, now)]
    /\ UNCHANGED <<now, sharedLoop, solana_wallets, pending_deposits, reserved, chain,
                   scan, lock, sweeps, removal, cleaner, recovery, hist, basketVars, extVars>>

\* A gather in which the first failed balance read fails the whole pass.
GatherResultsFailFast(pending, rpc_ok) ==
    IF rpc_ok # pending THEN {}
    ELSE {ResultOf(o) : o \in {x \in pending : ResultOf(x).action # "none"}}
\* asyncio.gather(*tasks, return_exceptions=True) and the loop over its
\* results: a wallet whose balance read failed (not in rpc_ok) returned None
\* and is passed over, like a wallet with no activity; the others keep their
\* results.
GatherResults(pending, rpc_ok) ==
    {ResultOf(o) : o \in {x \in rpc_ok : ResultOf(x).action # "none"}}

\* check_solana_deposits, up to the results of the balance checks: the pending
\* wallets are fetched and each is checked; a wallet whose balance read fails
\* (not in rpc_ok) yields no result.
StartPass(w, rpc_ok) ==
    /\ scan[w].pc = "idle"
    /\ LET pending == {o \in Orders : solana_wallets[o].status = "pending"} IN
       /\ pending # {}
       /\ rpc_ok \subseteq pending
       /\ scan' = [scan EXCEPT ![w] =
                [pc |-> "results",
                 results |-> GatherResults(pending, rpc_ok),
                 cur |-> NoResult,
                 skipped |-> pending \ rpc_ok]]
    /\ UNCHANGED <<now, sharedLoop, solana_wallets, pending_deposits, reserved, chain,
                   lock, sweeps, removal, cleaner, recovery, hist>>
    /\ UNCHANGED <<basketVars, checked, extVars>>

\* A settlement section entered without waiting for the lock.
AcquireUnlocked(w) == TRUE
\* async with _PAYMENT_PROCESS_LOCK, for scan passes of one event loop.
Acquire(w) == sharedLoop => lock = "free"
Held(w) == IF sharedLoop THEN w ELSE lock
Released(w) == IF sharedLoop THEN "free" ELSE lock

\* The pass takes its next result and enters _process_payment_result.
Take(w, r, pc2) ==
    [scan EXCEPT ![w] = [pc |-> pc2, results |-> scan[w].results \ {r}, cur |-> r,
                         skipped |-> scan[w].skipped]]
\* _process_payment_result returns; the pass goes on with its results.
Return(w) ==
    [scan EXCEPT ![w] = [pc |-> "results", results |-> scan[w].results, cur |-> NoResult,
                         skipped |-> scan[w].skipped]]
Goto(w, pc2) == [scan EXCEPT ![w].pc = pc2]

\* asyncio.create_task(sweep_wallet(wallet_dict, lamports))
ScheduleSweep(o, dict_status, lamports) ==
    IF ENABLE_AUTO_SWEEP /\ ADMIN_WALLET
    THEN sweeps \cup {[order |-> o, status |-> dict_status, lamports |-> lamports]}
    ELSE sweeps

\* ------------------------------------------------------- settlement: paid

\* Decimal.quantize(Decimal("0.01")) of lamports/10**9 SOL at price EUR/SOL, in
\* cents, rounding half to even.
QuantizeCents(lamports, price) ==
    LET n == lamports * price
        d == LAMPORTS_PER_SOL \div 100
        q == n \div d
        r == n % d
    IN IF 2 * r > d \/ (2 * r = d /\ q % 2 = 1) THEN q + 1 ELSE q

\* The overpayment branch: TRUE iff credit_user_balance is awaited for the surplus.
OverpaymentCredited(lamports, expected, price) ==
    LET surplus == lamports - expected * LamportsPerUnit IN
    /\ surplus > OverpayDustLamports
    /\ price # 0
    /\ QuantizeCents(surplus, price) > 0

\* SELECT status ... WHERE id = ? AND status = 'pending'
GuardPasses(o) == solana_wallets[o].status = "pending"

\* The same write without "AND status = 'pending'": every attempt's write lands.
PaidRowcountUnguarded(o) == TRUE

\* UPDATE solana_wallets SET status = 'paid' ... WHERE id = ? AND status = 'pending':
\* TRUE iff rowcount is 1.
PaidRowcount(o) == solana_wallets[o].status = "pending"

\* Lines 321-335: the pass takes a paid result, takes the lock, reads the guard.
PaidGuard(w, r) ==
    /\ scan[w].pc = "results"
    /\ r \in scan[w].results
    /\ r.action = "paid"
    /\ Acquire(w)
    /\ IF GuardPasses(r.order)
       THEN /\ scan' = Take(w, r, "paid_update")
            /\ lock' = Held(w)
       ELSE /\ scan' = [scan EXCEPT ![w].results = @ \ {r}]
            /\ UNCHANGED lock
    /\ UNCHANGED <<now, sharedLoop, solana_wallets, pending_deposits, reserved, chain,
                   sweeps, removal, cleaner, recovery, hist>>
    /\ UNCHANGED <<basketVars, checked, extVars>>

\* Storage failures of one kind a wallet meets at most.
MaxWriteFailures == 1

\* UPDATE solana_wallets SET status = 'paid', amount_received = ? ...
MarkPaid(o, lamports) ==
    [solana_wallets EXCEPT ![o].status = "paid", ![o].amount_received = lamports]

\* conn.rollback() on a transaction left open with the table as in written.
RollbackOpenKept(written) == written
\* conn.rollback() on a transaction left open (lines 473-479): what the
\* transaction wrote is undone and the table is as it was last committed.
RollbackOpen(written) == solana_wallets

\* conn.rollback() that reverts the wallet of o to pending.
RollbackRevertsPayment(o) ==
    [solana_wallets EXCEPT ![o].status = "pending", ![o].amount_received = 0]
\* conn.rollback() after the commit of line 347: there is no open transaction
\* and nothing is undone.
RollbackAfterCommit(o) == solana_wallets

\* The overpayment branch with the dust threshold compared with >=.
OverpaymentRecordInclusive(h, lamports, expected, price, credit_ok) ==
    LET surplus == lamports - expected * LamportsPerUnit
        credited == surplus >= OverpayDustLamports /\ price # 0
                    /\ QuantizeCents(surplus, price) > 0
    IN [h EXCEPT !.overpay_price = IF surplus >= OverpayDustLamports THEN price ELSE @,
                 !.overpay_credits = IF credited THEN @ + 1 ELSE @,
                 !.overpay_cents = IF credited THEN QuantizeCents(surplus, price) ELSE @,
                 !.credit_failed = @ \/ (credited /\ ~credit_ok)]
\* Lines 349-361 in the history of the order: the price fetched when the surplus
\* is above the dust threshold, the credit awaited and its amount in cents, and
\* whether the credit raised (the exception is caught and logged).
OverpaymentRecord(h, lamports, expected, price, credit_ok) ==
    LET surplus == lamports - expected * LamportsPerUnit
        credited == OverpaymentCredited(lamports, expected, price)
    IN [h EXCEPT !.overpay_price = IF surplus > OverpayDustLamports THEN price ELSE @,
                 !.overpay_credits = IF credited THEN @ + 1 ELSE @,
                 !.overpay_cents = IF credited THEN QuantizeCents(surplus, price) ELSE @,
                 !.credit_failed = @ \/ (credited /\ ~credit_ok)]

\* Lines 339-361: the guarded write, its commit, and the overpayment credit.
\* stored is FALSE when the write or its commit raises: the handler of lines
\* 473-479 rolls back and the settlement ends.  credit_ok is FALSE when the
\* overpayment credit raises.
PaidUpdate(w, price, stored, credit_ok) ==
    /\ scan[w].pc = "paid_update"
    /\ LET r == scan[w].cur
           o == r.order
       IN IF ~stored
          THEN /\ hist[o].write_failures < MaxWriteFailures
               /\ solana_wallets' = RollbackOpen(MarkPaid(o, r.lamports))
               /\ hist' = Bump(o, "write_failures")
               /\ scan' = Return(w)
               /\ lock' = Released(w)
          ELSE IF PaidRowcount(o)
          THEN /\ solana_wallets' = MarkPaid(o, r.lamports)
               /\ hist' = [hist EXCEPT ![o] =
                     OverpaymentRecord([@ EXCEPT !.paid_writes = @ + 1],
                                       r.lamports, r.expected, price, credit_ok)]
               /\ scan' = Goto(w, "paid_deliver")
               /\ UNCHANGED lock
          ELSE /\ scan' = Return(w)
               /\ lock' = Released(w)
               /\ UNCHANGED <<solana_wallets, hist>>
    /\ UNCHANGED <<now, sharedLoop, pending_deposits, reserved, chain, sweeps, removal,
                   cleaner, recovery>>
    /\ UNCHANGED <<basketVars, checked, extVars>>

\* What the delivery callback does to the holds of the delivered line items.
DeliveryBookkeeping(snapshot) ==
    [p \in Products |-> Max(0, reserved[p] - CountOf(snapshot, p))]

\* What the lookup and the callback of a settlement can do.
DeliverOutcomes == {"ok", "lookup_raises", "callback_raises"}

\* The callback chosen by kind and its arguments (lines 388-415).
CallbackFor(deposit_info) ==
    IF deposit_info.is_purchase
    THEN [kind |-> "delivery", row |-> deposit_info,
          snapshot |-> deposit_info.basket_snapshot,
          discount |-> deposit_info.discount_code_used, amount |-> 0]
    ELSE [kind |-> "refill", row |-> deposit_info, snapshot |-> <<>>,
          discount |-> "-", amount |-> deposit_info.target_eur_amount]

\* The lookup that takes a missing row for an order.
OrderFoundAlways(deposit_info) == TRUE
\* if deposit_info: (line 368)
OrderFound(deposit_info) == deposit_info.present

\* Lines 363-424: the order is looked up and the success callback awaited; with
\* no order row the sweep is scheduled and the settlement ends.  When the
\* lookup or the callback raises, the handler of lines 473-479 rolls back and
\* the settlement ends there: the order row stays and no sweep is scheduled.
PaidDeliver(w, outcome) ==
    /\ scan[w].pc = "paid_deliver"
    /\ LET r == scan[w].cur
           o == r.order
           deposit_info == pending_deposits[o]
           seen == [hist[o] EXCEPT !.order_missing = @ \/ ~deposit_info.present]
       IN IF outcome = "lookup_raises"
          THEN /\ solana_wallets' = RollbackAfterCommit(o)
               /\ hist' = [hist EXCEPT ![o] = [seen EXCEPT !.lookup_failed = TRUE]]
               /\ scan' = Return(w)
               /\ lock' = Released(w)
               /\ UNCHANGED <<sweeps, reserved>>
          ELSE IF OrderFound(deposit_info) /\ outcome = "callback_raises"
          THEN /\ solana_wallets' = RollbackAfterCommit(o)
               /\ hist' = [hist EXCEPT ![o] =
                             [seen EXCEPT !.callback_failed = TRUE,
                                          !.callback = CallbackFor(deposit_info)]]
               /\ scan' = Return(w)
               /\ lock' = Released(w)
               /\ UNCHANGED <<sweeps, reserved>>
          ELSE IF OrderFound(deposit_info)
          THEN /\ IF deposit_info.is_purchase
                  THEN /\ hist' = [hist EXCEPT ![o] =
                                     [seen EXCEPT !.delivered = @ + 1,
                                                  !.callback = CallbackFor(deposit_info)]]
                       /\ reserved' = DeliveryBookkeeping(deposit_info.basket_snapshot)
                  ELSE /\ hist' = [hist EXCEPT ![o] =
                                     [seen EXCEPT !.refill_credits = @ + 1,
                                                  !.callback = CallbackFor(deposit_info)]]
                       /\ UNCHANGED reserved
               /\ scan' = Goto(w, "paid_remove")
               /\ UNCHANGED <<sweeps, lock, solana_wallets>>
          ELSE /\ sweeps' = ScheduleSweep(o, "pending", r.lamports)
               /\ hist' = [hist EXCEPT ![o] = seen]
               /\ scan' = Return(w)
               /\ lock' = Released(w)
               /\ UNCHANGED <<reserved, solana_wallets>>
    /\ UNCHANGED <<now, sharedLoop, pending_deposits, chain, removal,
                   cleaner, recovery>>
    /\ UNCHANGED <<basketVars, checked, extVars>>

\* DELETE FROM pending_deposits WHERE payment_id = ?
DeleteDeposit(o) == [pending_deposits EXCEPT ![o] = NoDeposit]

\* Lines 408-424: remove_pending_deposit under a success trigger (the row is
\* deleted, nothing is un-reserved), then the sweep is scheduled.
PaidRemove(w) ==
    /\ scan[w].pc = "paid_remove"
    /\ LET r == scan[w].cur IN
       /\ pending_deposits' = DeleteDeposit(r.order)
       /\ sweeps' = ScheduleSweep(r.order, "pending", r.lamports)
    /\ scan' = Return(w)
    /\ lock' = Released(w)
    /\ UNCHANGED <<now, sharedLoop, solana_wallets, reserved, chain, removal, cleaner,
                   recovery, hist>>
    /\ UNCHANGED <<basketVars, checked, extVars>>

\* ------------------------------------------- settlement: underpaid, expired

\* Lines 426-438: the pass takes an underpaid result, takes the lock, reads the guard.
UnderpaidGuard(w, r) ==
    /\ scan[w].pc = "results"
    /\ r \in scan[w].results
    /\ r.action = "underpaid"
    /\ Acquire(w)
    /\ IF GuardPasses(r.order)
       THEN /\ scan' = Take(w, r, "under_credit")
            /\ lock' = Held(w)
       ELSE /\ scan' = [scan EXCEPT ![w].results = @ \ {r}]
            /\ UNCHANGED lock
    /\ UNCHANGED <<now, sharedLoop, solana_wallets, pending_deposits, reserved, chain,
                   sweeps, removal, cleaner, recovery, hist>>
    /\ UNCHANGED <<basketVars, checked, extVars>>

\* Lines 442-450: with a price and a refund that rounds above zero the payer is
\* notified and credited; otherwise the settlement ends with the wallet untouched.
UnderpaidCredit(w, price) ==
    /\ scan[w].pc = "under_credit"
    /\ LET r == scan[w].cur
           o == r.order
       IN IF price # 0 /\ QuantizeCents(r.lamports, price) > 0
          THEN /\ hist[o].underpay_credits < MaxCredits
               /\ hist' = Bump(o, "underpay_credits")
               /\ scan' = Goto(w, "under_update")
               /\ UNCHANGED lock
          ELSE /\ scan' = Return(w)
               /\ lock' = Released(w)
               /\ UNCHANGED hist
    /\ UNCHANGED <<now, sharedLoop, solana_wallets, pending_deposits, reserved, chain,
                   sweeps, removal, cleaner, recovery>>
    /\ UNCHANGED <<basketVars, checked, extVars>>

\* UPDATE solana_wallets SET status = 'refunded' ... WHERE id = ? AND status = 'pending'
MarkRefunded(o, lamports) ==
    IF solana_wallets[o].status = "pending"
    THEN [solana_wallets EXCEPT ![o].status = "refunded",
                                ![o].amount_received = lamports]
    ELSE solana_wallets

\* Lines 452-462: the status write after the credit, then the sweep; a storage
\* error in the write (stored = FALSE) is caught and logged, and nothing is written.
UnderpaidUpdate(w, stored) ==
    /\ scan[w].pc = "under_update"
    /\ LET r == scan[w].cur IN
       IF stored
       THEN /\ solana_wallets' = MarkRefunded(r.order, r.lamports)
            /\ sweeps' = ScheduleSweep(r.order, "pending", r.lamports)
       ELSE UNCHANGED <<solana_wallets, sweeps>>
    /\ scan' = Return(w)
    /\ lock' = Released(w)
    /\ UNCHANGED <<now, sharedLoop, pending_deposits, reserved, chain, removal, cleaner,
                   recovery, hist>>
    /\ UNCHANGED <<basketVars, checked, extVars>>

\* The same write without "AND status = 'pending'".
MarkExpiredUnguarded(o) == [solana_wallets EXCEPT ![o].status = "expired"]

\* UPDATE solana_wallets SET status = 'expired' ... WHERE id = ? AND status = 'pending'
MarkExpired(o) ==
    IF solana_wallets[o].status = "pending"
    THEN [solana_wallets EXCEPT ![o].status = "expired"]
    ELSE solana_wallets

\* Lines 464-471: an expired result is settled in one write; when the write or
\* its commit raises (stored = FALSE) the handler of lines 473-479 rolls back.
ExpiredUpdate(w, r, stored) ==
    /\ scan[w].pc = "results"
    /\ r \in scan[w].results
    /\ r.action = "expired"
    /\ Acquire(w)
    /\ IF stored
       THEN /\ solana_wallets' = MarkExpired(r.order)
            /\ UNCHANGED hist
       ELSE /\ hist[r.order].write_failures < MaxWriteFailures
            /\ solana_wallets' = RollbackOpen(MarkExpired(r.order))
            /\ hist' = Bump(r.order, "write_failures")
    /\ scan' = [scan EXCEPT ![w].results = @ \ {r}]
    /\ UNCHANGED <<now, sharedLoop, pending_deposits, reserved, chain, lock, sweeps,
                   removal, cleaner, recovery>>
    /\ UNCHANGED <<basketVars, checked, extVars>>

\* Lines 526-538: after the results, every wallet marked paid is handed to sweep_wallet.
EndPass(w) ==
    /\ scan[w].pc = "results"
    /\ scan[w].results = {}
    /\ scan' = [scan EXCEPT ![w] = IdleScan]
    /\ sweeps' = IF ENABLE_AUTO_SWEEP /\ ADMIN_WALLET
                 THEN sweeps \cup {[order |-> o, status |-> "paid", lamports |-> 0] :
                                      o \in {x \in Orders : solana_wallets[x].status = "paid"}}
                 ELSE sweeps
    /\ UNCHANGED <<now, sharedLoop, solana_wallets, pending_deposits, reserved, chain,
                   lock, removal, cleaner, recovery, hist>>
    /\ UNCHANGED <<basketVars, checked, extVars>>

\* ------------------------------------------------------------------ sweep

\* UPDATE solana_wallets SET status = 'swept' WHERE id = ?
MarkSwept(o) == [solana_wallets EXCEPT ![o].status = "swept"]

\* A sweep that sends the whole balance and leaves nothing for the fee.
SweepAmountWhole(current_lamports) == current_lamports
\* Lines 566-567: fee = 5000; amount_to_send = current_lamports - fee
SweepAmount(current_lamports) == current_lamports - SweepFeeLamports

\* A sweep that marks the wallet swept whether or not the submission went through.
SweptAfterSendAlways(send_ok) == TRUE
\* Lines 593-600: the UPDATE to 'swept' is reached only when send_transaction
\* returned; an exception goes to the handler of lines 604-605.
SweptAfterSend(send_ok) == send_ok

\* sweep_wallet(wallet_data, current_lamports) as a function of the status in
\* wallet_data, the balance handed in (0: fetch it), the balance on the ledger
\* and the outcomes of the three ledger calls: the balance it worked with
\* (-1: the read failed), the transfers it submitted, whether the submission
\* went through and whether it wrote status = 'swept'.
SweepRun(dict_status, given, balance, read_ok, blockhash_ok, send_ok) ==
    LET fetch == given = 0
        current_lamports == IF fetch THEN balance ELSE given
    IN IF fetch /\ ~read_ok
       THEN NoSweepRun
       ELSE IF current_lamports < SweepDustLamports
       THEN [balance |-> current_lamports, transfers |-> <<>>, sent |-> FALSE,
             swept |-> dict_status = "paid"]
       ELSE IF SweepAmount(current_lamports) <= 0 \/ ~blockhash_ok
       THEN [balance |-> current_lamports, transfers |-> <<>>, sent |-> FALSE,
             swept |-> FALSE]
       ELSE [balance |-> current_lamports,
             transfers |-> <<[to |-> "ADMIN_WALLET",
                              lamports |-> SweepAmount(current_lamports)]>>,
             sent |-> send_ok, swept |-> SweptAfterSend(send_ok)]

\* The ledger call of a sweep_wallet run that raises, if any.
SweepFailures == {"none", "balance", "blockhash", "send"}

\* One sweep_wallet task runs; fails names the ledger call of this run that
\* raises.  A transfer of more than the wallet holds is refused by the ledger.
SweepWallet(task, fails) ==
    /\ task \in sweeps
    /\ sweeps' = sweeps \ {task}
    /\ LET o == task.order
           current_lamports == IF task.lamports = 0 THEN chain[o] ELSE task.lamports
           run == SweepRun(task.status, task.lamports, chain[o], fails # "balance",
                           fails # "blockhash",
                           fails # "send" /\ chain[o] >= current_lamports)
       IN /\ chain' = IF run.sent
                      THEN [chain EXCEPT ![o] = @ - run.transfers[1].lamports
                                                  - SweepFeeLamports]
                      ELSE chain
          /\ solana_wallets' = IF run.swept THEN MarkSwept(o) ELSE solana_wallets
    /\ UNCHANGED <<now, sharedLoop, pending_deposits, reserved, scan, lock, removal,
                   cleaner, recovery, hist>>
    /\ UNCHANGED <<basketVars, checked, extVars>>

\* One call of sweep_wallet on its own, for a wallet_data with the given status,
\* the given current_lamports argument, ledger balance and ledger call outcomes.
SweepOnce(dict_status, given, balance, read_ok, blockhash_ok, send_ok) ==
    /\ sweep_log' = [done |-> TRUE, status |-> dict_status, given |-> given,
                     balance |-> balance, blockhash_ok |-> blockhash_ok,
                     run |-> SweepRun(dict_status, given, balance, read_ok,
                                      blockhash_ok, send_ok)]
    /\ UNCHANGED <<now, settleVars, basketVars, checked, priceVars, issueVars, checks,
                   health, queueVars>>

\* ------------------------------------------------------------ health check

\* check_payment_system_health: the status computed from the count of purchase
\* orders older than 30 minutes and the count of purchase orders younger than
\* an hour; a database error gives {'is_healthy': False, 'error': ...}.
IsHealthy(db_ok, stuck_payments, recent_payments) ==
    db_ok /\ stuck_payments < STUCK_PAYMENTS_LIMIT /\ recent_payments > 0

\* send_health_alert: a message goes to the first primary admin when the
\* status is not healthy and such an admin exists.
AlertSent(is_healthy, admin) == ~is_healthy /\ admin

\* One health check followed by send_health_alert on its status.
CheckHealth(db_ok, stuck_payments, recent_payments, admin) ==
    /\ health' = [done |-> TRUE, db_ok |-> db_ok, stuck_payments |-> stuck_payments,
                  recent_payments |-> recent_payments, admin |-> admin,
                  is_healthy |-> IsHealthy(db_ok, stuck_payments, recent_payments),
                  alert |-> AlertSent(IsHealthy(db_ok, stuck_payments, recent_payments),
                                      admin)]
    /\ UNCHANGED <<now, settleVars, basketVars, checked, priceVars, issueVars, checks,
                   sweep_log, queueVars>>

\* ----------------------------------------------------------- payment queue

\* queue_payment_action: INSERT OR REPLACE INTO payment_queue (...) VALUES
\* (..., 'pending', 0, ...); payment_id is UNIQUE, so a row with the same
\* payment_id is replaced.
QueuePaymentAction(id) ==
    /\ payment_queue' = [payment_queue EXCEPT ![id] =
                             [present |-> TRUE, status |-> "pending", attempts |-> 0]]
    /\ UNCHANGED <<queue_hist, now, settleVars, basketVars, checked, priceVars,
                   issueVars, checks, sweep_log, health>>

\* SELECT * FROM payment_queue WHERE status = 'pending' AND attempts < max_attempts
PendingQueueItems ==
    {id \in PaymentIds : /\ payment_queue[id].present
                         /\ payment_queue[id].status = "pending"
                         /\ payment_queue[id].attempts < QUEUE_MAX_ATTEMPTS}

\* get_pending_queue_items returns its rows to the caller.
GetPendingQueueItems ==
    /\ queue_hist' = [id \in PaymentIds |->
                         [queue_hist[id] EXCEPT !.returned_after =
                              @ \/ (id \in PendingQueueItems /\ queue_hist[id].completed)]]
    /\ UNCHANGED <<payment_queue, now, settleVars, basketVars, checked, priceVars,
                   issueVars, checks, sweep_log, health>>

\* The UPDATE of mark_queue_item_processed for one row: 'completed' on success;
\* on failure attempts + 1 and status 'failed' when that reaches max_attempts,
\* 'pending' otherwise.  Neither UPDATE looks at the row's current status.
MarkedRow(row, success) ==
    IF ~row.present THEN row
    ELSE IF success THEN [row EXCEPT !.status = "completed"]
    ELSE [row EXCEPT !.attempts = @ + 1,
                     !.status = IF row.attempts + 1 >= QUEUE_MAX_ATTEMPTS
                                THEN "failed" ELSE "pending"]

\* mark_queue_item_processed(payment_id, success)
MarkQueueItemProcessed(id, success) ==
    /\ success \/ payment_queue[id].attempts < MaxAttemptsCounted
    /\ payment_queue' = [payment_queue EXCEPT ![id] = MarkedRow(@, success)]
    /\ queue_hist' = [queue_hist EXCEPT ![id].completed =
                          @ \/ (payment_queue[id].present /\ success)]
    /\ UNCHANGED <<now, settleVars, basketVars, checked, priceVars, issueVars, checks,
                   sweep_log, health>>

\* The process dies between two scan passes and is started again: the sweep
\* tasks created with asyncio.create_task exist in memory only and are lost.
CrashBetweenPasses ==
    /\ \A w \in Workers : scan[w].pc = "idle"
    /\ sweeps # {}
    /\ sweeps' = {}
    /\ UNCHANGED <<now, sharedLoop, solana_wallets, pending_deposits, reserved, chain,
                   scan, lock, removal, cleaner, recovery, hist>>
    /\ UNCHANGED <<basketVars, checked, extVars>>

\* ------------------------------------------------- remove_pending_deposit

successful_triggers == {"purchase_success", "refill_success", "crypto_payment_success",
                        "refill_payment_success", "recovery_success"}

\* A release that subtracts without the clamp.
UnreserveUnclamped(snapshot) ==
    [p \in Products |-> reserved[p] - CountOf(snapshot, p)]
\* _unreserve_basket_items: UPDATE products SET reserved = MAX(0, reserved - ?)
Unreserve(snapshot) ==
    [p \in Products |-> Max(0, reserved[p] - CountOf(snapshot, p))]

\* A release decided on the row read before the DELETE, whether or not this
\* call deleted it.
ShouldUnreserveIfFound(deleted, pending_info, trigger) ==
    /\ pending_info.present
    /\ pending_info.is_purchase
    /\ trigger \notin successful_triggers
\* The condition under which remove_pending_deposit un-reserves the snapshot.
ShouldUnreserve(deleted, pending_info, trigger) ==
    /\ deleted
    /\ pending_info.present
    /\ pending_info.is_purchase
    /\ trigger \notin successful_triggers

StartRemoval(c, o, trigger) ==
    [removal EXCEPT ![c] = [pc |-> "read", order |-> o, trigger |-> trigger,
                            info |-> NoDeposit, deleted |-> FALSE]]

\* pending_info = get_pending_deposit(payment_id)
RemoveRead(c) ==
    /\ removal[c].pc = "read"
    /\ removal' = [removal EXCEPT ![c].pc = "delete",
                                  ![c].info = pending_deposits[removal[c].order]]
    /\ UNCHANGED <<now, sharedLoop, solana_wallets, pending_deposits, reserved, chain,
                   scan, lock, sweeps, cleaner, recovery, hist>>
    /\ UNCHANGED <<basketVars, checked, extVars>>

\* DELETE FROM pending_deposits ...; deleted = result.rowcount > 0
RemoveDelete(c) ==
    /\ removal[c].pc = "delete"
    /\ removal' = [removal EXCEPT ![c].pc = "unreserve",
                                  ![c].deleted = pending_deposits[removal[c].order].present]
    /\ pending_deposits' = DeleteDeposit(removal[c].order)
    /\ UNCHANGED <<now, sharedLoop, solana_wallets, reserved, chain, scan, lock, sweeps,
                   cleaner, recovery, hist>>
    /\ UNCHANGED <<basketVars, checked, extVars>>

\* Lines 1776-1786: the holds are released if the condition holds; the call returns.
RemoveUnreserve(c) ==
    /\ removal[c].pc = "unreserve"
    /\ LET rm == removal[c] IN
       IF ShouldUnreserve(rm.deleted, rm.info, rm.trigger)
       THEN /\ reserved' = Unreserve(rm.info.basket_snapshot)
            /\ hist' = [hist EXCEPT ![rm.order].released = @ + 1,
                                    ![rm.order].released_by = rm.trigger]
       ELSE UNCHANGED <<reserved, hist>>
    /\ removal' = [removal EXCEPT ![c] = IdleRemoval]
    /\ UNCHANGED <<now, sharedLoop, solana_wallets, pending_deposits, chain, scan, lock,
                   sweeps, cleaner, recovery>>
    /\ UNCHANGED <<basketVars, checked, extVars>>

\* remove_pending_deposit(payment_id, trigger) is called by caller c.
CallRemove(c, o, trigger) ==
    /\ removal[c].pc = "idle"
    /\ removal' = StartRemoval(c, o, trigger)
    /\ UNCHANGED <<now, sharedLoop, solana_wallets, pending_deposits, reserved, chain,
                   scan, lock, sweeps, cleaner, recovery, hist>>
    /\ UNCHANGED <<basketVars, checked, extVars>>

\* cancel_order: an explicit non-success termination by the caller.
Cancel(o) ==
    /\ removal["cancel"].pc = "idle"
    /\ solana_wallets[o].status # "none"
    /\ removal' = StartRemoval("cancel", o, "cancel")
    /\ UNCHANGED <<now, sharedLoop, solana_wallets, pending_deposits, reserved, chain,
                   scan, lock, sweeps, cleaner, recovery, hist>>
    /\ UNCHANGED <<basketVars, checked, extVars>>

\* ------------------------------------------------------- timeout cleaner

\* A timestamp as the text the database compares: the date, the separator
\* between date and time, the time of day.
SepT == 84
SepSpace == 32
\* datetime.isoformat(): "YYYY-MM-DDTHH:MM:SS..."
IsoFormat(t) == [day |-> t \div MinutesPerDay, sep |-> SepT, minute |-> t % MinutesPerDay]
\* SQLite datetime('now', ...): "YYYY-MM-DD HH:MM:SS"
SqliteDatetime(t) == [day |-> t \div MinutesPerDay, sep |-> SepSpace,
                      minute |-> t % MinutesPerDay]
\* a < b on TEXT values
TextLess(a, b) ==
    \/ a.day < b.day
    \/ a.day = b.day /\ a.sep < b.sep
    \/ a.day = b.day /\ a.sep = b.sep /\ a.minute < b.minute

\* clean_expired_pending_payments, lines 3076-3133: the purchases created before
\* the cutoff (both sides are isoformat() strings of UTC datetimes).
ExpiredPurchases ==
    {o \in Orders : /\ pending_deposits[o].present
                    /\ pending_deposits[o].is_purchase
                    /\ TextLess(IsoFormat(pending_deposits[o].created_at),
                                IsoFormat(now - PAYMENT_TIMEOUT_MINUTES))}

CleanerSelect ==
    /\ cleaner = {}
    /\ removal["cleaner"].pc = "idle"
    /\ ExpiredPurchases # {}
    /\ cleaner' = ExpiredPurchases
    /\ UNCHANGED <<now, sharedLoop, solana_wallets, pending_deposits, reserved, chain,
                   scan, lock, sweeps, removal, recovery, hist>>
    /\ UNCHANGED <<basketVars, checked, extVars>>

\* Lines 3135-3152: remove_pending_deposit(payment_id, trigger="timeout_expiry")
CleanerRemove(o) ==
    /\ o \in cleaner
    /\ removal["cleaner"].pc = "idle"
    /\ cleaner' = cleaner \ {o}
    /\ removal' = StartRemoval("cleaner", o, "timeout_expiry")
    /\ UNCHANGED <<now, sharedLoop, solana_wallets, pending_deposits, reserved, chain,
                   scan, lock, sweeps, recovery, hist>>
    /\ UNCHANGED <<basketVars, checked, extVars>>

\* ------------------------------------------------------- recovery job

\* get_failed_payments_for_recovery: purchases whose created_at (an isoformat()
\* string) sorts before datetime('now', '-10 minutes') and whose wallet is
\* missing or still pending.
FailedPayments ==
    {o \in Orders : /\ pending_deposits[o].present
                    /\ pending_deposits[o].is_purchase
                    /\ TextLess(IsoFormat(pending_deposits[o].created_at),
                                SqliteDatetime(now - RecoveryGraceMinutes))
                    /\ solana_wallets[o].status \in {"none", "pending"}}

RecoverySelect ==
    /\ recovery = {}
    /\ FailedPayments # {}
    /\ recovery' = FailedPayments
    /\ UNCHANGED <<now, sharedLoop, solana_wallets, pending_deposits, reserved, chain,
                   scan, lock, sweeps, removal, cleaner, hist>>
    /\ UNCHANGED <<basketVars, checked, extVars>>

\* recover_failed_payment as it would run if the delivery call were awaited:
\* the delivery body runs for whatever order record is found.
RecoverFailedPaymentAwaited(o) ==
    /\ o \in recovery
    /\ recovery' = recovery \ {o}
    /\ hist' = [hist EXCEPT ![o].recovery_calls = @ + 1, ![o].delivered = @ + 1]
    /\ pending_deposits' = DeleteDeposit(o)
    /\ UNCHANGED <<now, sharedLoop, solana_wallets, reserved, chain, scan, lock, sweeps,
                   removal, cleaner>>
    /\ UNCHANGED <<basketVars, checked, extVars>>

\* recover_failed_payment: process_successful_crypto_purchase(...) is called
\* without await.  payment_solana.py awaits the same function, so the call
\* returns a coroutine object: the delivery body does not run, the result is
\* truthy, and the order is removed under trigger "recovery_success" (a
\* successful trigger: nothing is un-reserved).
RecoverFailedPayment(o) ==
    /\ o \in recovery
    /\ recovery' = recovery \ {o}
    /\ hist' = Bump(o, "recovery_calls")
    /\ pending_deposits' = DeleteDeposit(o)
    /\ UNCHANGED <<now, sharedLoop, solana_wallets, reserved, chain, scan, lock, sweeps,
                   removal, cleaner>>
    /\ UNCHANGED <<basketVars, checked, extVars>>

\* ------------------------------------------------------- basket holds

\* The basket subsystem's add-to-basket: a hold on p and a basket entry
\* "p:now".  The shopper's basket holds at most one entry here.
AddToBasket(p) ==
    /\ basket = <<>>
    /\ basket' = <<[product |-> p, ts |-> now]>>
    /\ reserved' = [reserved EXCEPT ![p] = @ + 1]
    /\ UNCHANGED <<now, sharedLoop, solana_wallets, pending_deposits, chain, scan, lock,
                   sweeps, removal, cleaner, recovery, hist, tracking, basketJob, checked, extVars>>

\* current_time - ts <= BASKET_TIMEOUT
EntryValid(e, t) == t - e.ts <= BASKET_TIMEOUT_MINUTES
ValidEntries(b, t) == SelectSeq(b, LAMBDA e : EntryValid(e, t))
\* expired_product_ids_counts / all_expired_product_counts
ExpiredCounts(b, t) ==
    [p \in Products |->
        Cardinality({i \in 1..Len(b) : b[i].product = p /\ ~EntryValid(b[i], t)})]
\* executemany("UPDATE products SET reserved = MAX(0, reserved - ?) WHERE id = ?")
DecrementReserved(counts) == [p \in Products |-> Max(0, reserved[p] - counts[p])]

\* clear_expired_basket: in one transaction the expired entries leave the
\* basket and their holds are released.
ClearExpiredBasket ==
    /\ ValidEntries(basket, now) # basket
    /\ basket' = ValidEntries(basket, now)
    /\ reserved' = DecrementReserved(ExpiredCounts(basket, now))
    /\ UNCHANGED <<now, sharedLoop, solana_wallets, pending_deposits, chain, scan, lock,
                   sweeps, removal, cleaner, recovery, hist, tracking, basketJob, checked, extVars>>

\* clear_all_expired_baskets, steps 1 and 2: the baskets are fetched on one
\* connection and the expired entries counted; a run that finds none writes
\* nothing and is left out.
BasketSweepFetch ==
    /\ basketJob.pc = "idle"
    /\ basket # <<>>
    /\ ValidEntries(basket, now) # basket
    /\ basketJob' = [pc |-> "update", new_basket |-> ValidEntries(basket, now),
                     expired_counts |-> ExpiredCounts(basket, now)]
    /\ UNCHANGED <<now, sharedLoop, solana_wallets, pending_deposits, reserved, chain,
                   scan, lock, sweeps, removal, cleaner, recovery, hist, basket, tracking, checked, extVars>>

\* clear_all_expired_baskets, step 3: on a second connection the basket strings
\* computed in step 2 are written and the counted holds released.
BasketSweepUpdate ==
    /\ basketJob.pc = "update"
    /\ basket' = basketJob.new_basket
    /\ reserved' = DecrementReserved(basketJob.expired_counts)
    /\ basketJob' = IdleBasketJob
    /\ UNCHANGED <<now, sharedLoop, solana_wallets, pending_deposits, chain, scan, lock,
                   sweeps, removal, cleaner, recovery, hist, tracking, checked, extVars>>

\* A shopper reserves a single item and the caller records it with
\* track_reservation(user_id, snapshot, 'single').
TrackReservation(p) ==
    /\ ~tracking.present
    /\ tracking' = [present |-> TRUE, timestamp |-> now, snapshot |-> <<p>>]
    /\ reserved' = [reserved EXCEPT ![p] = @ + 1]
    /\ UNCHANGED <<now, sharedLoop, solana_wallets, pending_deposits, chain, scan, lock,
                   sweeps, removal, cleaner, recovery, hist, basket, basketJob, checked, extVars>>

\* clean_abandoned_reservations: a tracked reservation older than the timeout
\* is un-reserved and its tracking dropped.
CleanAbandonedReservations ==
    /\ tracking.present
    /\ tracking.timestamp < now - ABANDONED_RESERVATION_TIMEOUT_MINUTES
    /\ reserved' = Unreserve(tracking.snapshot)
    /\ tracking' = NoTracking
    /\ UNCHANGED <<now, sharedLoop, solana_wallets, pending_deposits, chain, scan, lock,
                   sweeps, removal, cleaner, recovery, hist, basket, basketJob, checked, extVars>>

\* ------------------------------------------------------- price oracle

\* PRICE_CACHE_TTL, the durable cache age limit and STALE_CACHE_MAX_AGE, in minutes.
PRICE_CACHE_TTL_MINUTES == 5
DbCacheTtlMinutes == 10
STALE_CACHE_MAX_AGE_MINUTES == 60
\* len(apis): Binance, CryptoCompare, CoinGecko are 0, 1, 2.
ApiCount == 3
Apis == 0..(ApiCount - 1)
\* Prices a live source can answer with, EUR per SOL.
LivePrices == {150}
\* What each live source does when asked: a price, or 0 for a timeout, a 429 or
\* any other failure (fetch_price_from_api returns None).
ApiOutcomes == [Apis -> LivePrices \cup {0}]
\* The columns of bot_settings as init_db creates the table.
BotSettingsColumns == {"setting_key", "setting_value"}

\* get_sol_price_from_db: the SELECT names the column updated_at; when the table
\* has no such column the statement raises, the exception is caught and None
\* is returned.
GetSolPriceFromDb(row, t) ==
    IF /\ "updated_at" \in BotSettingsColumns
       /\ row.present
       /\ t - row.updated_at < DbCacheTtlMinutes
    THEN row.setting_value
    ELSE 0

\* save_sol_price_to_db: INSERT OR REPLACE ... (setting_key, setting_value,
\* updated_at); with no such column the statement raises and the exception is
\* caught: nothing is written.
SaveSolPriceToDb(row, price, t) ==
    IF "updated_at" \in BotSettingsColumns
    THEN [present |-> TRUE, setting_value |-> price, updated_at |-> t]
    ELSE row

\* Layer 1 of get_sol_price_eur.
MemoryFresh(cache, t) == cache.price # 0 /\ t - cache.timestamp < PRICE_CACHE_TTL_MINUTES

\* The rotation that always starts with the first source.
StartIdxFixed(cache) == 0
\* start_idx and the rotated order in which the live sources are tried.
StartIdx(cache) ==
    IF cache.last_api_used # -1 THEN (cache.last_api_used + 1) % ApiCount ELSE 0
Rotation(cache) == [i \in 1..ApiCount |-> (StartIdx(cache) + i - 1) % ApiCount]
\* The position in the rotation of the first source that answers, 0 if none does.
FirstAnswer(cache, outcomes) ==
    IF \E i \in 1..ApiCount : outcomes[Rotation(cache)[i]] # 0
    THEN CHOOSE i \in 1..ApiCount :
            /\ outcomes[Rotation(cache)[i]] # 0
            /\ \A j \in 1..(i - 1) : outcomes[Rotation(cache)[j]] = 0
    ELSE 0

\* Layer 4 with no limit on the age of the entry.
StaleUsableAnyAge(cache, t) == cache.price # 0
\* Layer 4 of get_sol_price_eur (lines 143-150): the in-process price, whatever
\* its freshness, if it is less than an hour old.
StaleUsable(cache, t) ==
    cache.price # 0 /\ t - cache.timestamp < STALE_CACHE_MAX_AGE_MINUTES

\* get_sol_price_eur at time t: the price returned (0 for None), the layer that
\* served it, the live sources asked in order, and the caches afterwards.
ResolvePrice(cache, row, t, outcomes) ==
    LET db_price == GetSolPriceFromDb(row, t)
        k == FirstAnswer(cache, outcomes)
        rot == Rotation(cache)
    IN IF MemoryFresh(cache, t)
       THEN [result |-> cache.price, source |-> "memory", live |-> <<>>,
             cache |-> cache, row |-> row, saved |-> FALSE]
       ELSE IF db_price # 0
       THEN [result |-> db_price, source |-> "db", live |-> <<>>,
             cache |-> [cache EXCEPT !.price = db_price, !.timestamp = t],
             row |-> row, saved |-> FALSE]
       ELSE IF k # 0
       THEN [result |-> outcomes[rot[k]], source |-> "live",
             live |-> SubSeq(rot, 1, k),
             cache |-> [price |-> outcomes[rot[k]], timestamp |-> t,
                        last_api_used |-> rot[k]],
             row |-> SaveSolPriceToDb(row, outcomes[rot[k]], t), saved |-> TRUE]
       ELSE IF StaleUsable(cache, t)
       THEN [result |-> cache.price, source |-> "stale", live |-> rot,
             cache |-> cache, row |-> row, saved |-> FALSE]
       ELSE [result |-> 0, source |-> "none", live |-> rot,
             cache |-> cache, row |-> row, saved |-> FALSE]

\* What price_call keeps of a get_sol_price_eur call on cache: whether the
\* in-process entry was fresh, how long before the call save_sol_price_to_db had
\* last been called (-1: never), the sources asked, the source that had supplied
\* the previous live price (in this process: prev_api; ever: last_supplier),
\* and when the price returned was obtained from a live source (origin).
CallRecord(cache, res) ==
    LET origin == IF res.source = "live" THEN now
                  ELSE IF res.source = "db" THEN bot_settings.updated_at
                  ELSE price_call.origin
    IN [done |-> TRUE,
        memory_fresh |-> MemoryFresh(cache, now),
        saved_age |-> IF price_call.saved_at = -1 THEN -1
                      ELSE now - price_call.saved_at,
        saved_at |-> IF res.saved THEN now ELSE price_call.saved_at,
        live |-> res.live, source |-> res.source,
        result |-> res.result, restarted |-> price_call.restarted,
        origin |-> origin,
        result_age |-> IF res.result # 0 THEN now - origin ELSE -1,
        prev_api |-> cache.last_api_used,
        prev_supplier |-> price_call.last_supplier,
        last_supplier |-> IF res.source = "live" THEN res.cache.last_api_used
                          ELSE price_call.last_supplier,
        refresh |-> NoRefresh]

\* What one call of get_sol_price_eur does to the caches.
PriceCallEffect(res) ==
    /\ price_cache' = res.cache
    /\ bot_settings' = res.row
    /\ price_call' = CallRecord(price_cache, res)

\* One call of get_sol_price_eur.
GetSolPriceEur(outcomes) ==
    /\ PriceCallEffect(ResolvePrice(price_cache, bot_settings, now, outcomes))
    /\ UNCHANGED <<now, settleVars, basketVars, checked, issueVars, checks, auxVars>>

\* A failed refresh that leaves the timestamp at 0.
RestoreTimestampSkipped(cache, old_timestamp) == cache
\* _price_cache['timestamp'] = old_timestamp (line 170)
RestoreTimestamp(cache, old_timestamp) == [cache EXCEPT !.timestamp = old_timestamp]

\* refresh_price_cache: the timestamp is set to 0 so that get_sol_price_eur goes
\* past the in-process entry; when no price comes back the old timestamp is
\* put back.
RefreshPriceCache(outcomes) ==
    /\ LET old_timestamp == price_cache.timestamp
           forced == [price_cache EXCEPT !.timestamp = 0]
           res == ResolvePrice(forced, bot_settings, now, outcomes)
       IN /\ price_cache' = IF res.result # 0 THEN res.cache
                            ELSE RestoreTimestamp(res.cache, old_timestamp)
          /\ bot_settings' = res.row
          /\ price_call' = [CallRecord(forced, res) EXCEPT
                               !.done = FALSE,
                               !.refresh = [done |-> TRUE, ok |-> res.result # 0,
                                            before |-> price_cache]]
    /\ UNCHANGED <<now, settleVars, basketVars, checked, issueVars, checks, auxVars>>

\* The process restarts: the in-process cache starts empty, the database stays.
Restart ==
    /\ price_cache # EmptyPriceCache
    /\ price_cache' = EmptyPriceCache
    /\ price_call' = [price_call EXCEPT !.done = FALSE, !.restarted = TRUE,
                                        !.refresh = NoRefresh]
    /\ UNCHANGED <<now, settleVars, basketVars, checked, bot_settings, issueVars, checks, auxVars>>

\* ------------------------------------------------------- wallet issuance

\* Calls of create_solana_payment each caller makes at most.
MaxIssueCalls == 2
\* Fiat amounts requested, in cents.
IssueEurCents == {100, 200}
\* Asset units (0.00001 SOL) per 1 EUR at price 1: eur_cents * 1000 / price.
UnitsPerCent == 1000

\* Decimal.quantize with the context's default rounding, ROUND_HALF_EVEN:
\* n / d to the nearest integer, ties to the even one.
RoundHalfEven(n, d) ==
    LET q == n \div d
        r == n % d
    IN IF 2 * r < d THEN q
       ELSE IF 2 * r > d THEN q + 1
       ELSE IF q % 2 = 0 THEN q ELSE q + 1

\* sol_amount = (Decimal(eur_amount) / price).quantize(Decimal("0.00001")), in
\* units of 0.00001 SOL.
SolAmount(eur_cents, price) == RoundHalfEven(eur_cents * UnitsPerCent, price)

\* Keypair(): a key no earlier call has generated.
NewKeypair(c, n) == <<c, n>>

\* order_id TEXT UNIQUE NOT NULL: an INSERT is accepted only when no row of
\* solana_wallets carries the order id.
UniqueOrderIdDropped(rows, o) == TRUE
UniqueOrderId(rows, o) == rows[o] = {}

\* An INSERT that raised and left its row behind.
InsertRefusedKept(rows, o, row) == [rows EXCEPT ![o] = @ \cup {row}]
\* The INSERT or its commit raised (lines 212-216): the exception is caught,
\* the connection is closed and no row is persisted.
InsertRefused(rows, o, row) == rows

ReturnError(e) == [status |-> "error", error |-> e, pay_address |-> <<>>, pay_amount |-> 0]
ReturnWallet(key, amount) ==
    [status |-> "ok", error |-> "-", pay_address |-> key, pay_amount |-> amount]

\* create_solana_payment up to the existence check: the spot price, the amount,
\* a new keypair, then SELECT ... WHERE order_id = ?.  An existing row is
\* returned as it is; otherwise the call goes on to the INSERT.
IssueBegin(c, o, eur, outcomes) ==
    /\ issue[c].pc = "idle"
    /\ issue[c].calls < MaxIssueCalls
    /\ LET res == ResolvePrice(price_cache, bot_settings, now, outcomes)
           n == issue[c].calls + 1
           called == [issue[c] EXCEPT !.order = o, !.eur = eur, !.calls = n,
                                      !.price = res.result,
                                      !.existed = wallet_rows[o] # {},
                                      !.key = <<>>, !.expected = 0]
       IN /\ PriceCallEffect(res)
          /\ IF res.result = 0
             THEN issue' = [issue EXCEPT ![c] =
                               [called EXCEPT !.ret = ReturnError("estimate_failed")]]
             ELSE IF wallet_rows[o] # {}
             THEN LET existing == CHOOSE row \in wallet_rows[o] : TRUE
                  IN issue' = [issue EXCEPT ![c] =
                                 [called EXCEPT !.key = NewKeypair(c, n),
                                                !.expected = SolAmount(eur, res.result),
                                                !.ret = ReturnWallet(existing.public_key,
                                                                     existing.expected_amount)]]
             ELSE issue' = [issue EXCEPT ![c] =
                               [called EXCEPT !.pc = "insert",
                                              !.key = NewKeypair(c, n),
                                              !.expected = SolAmount(eur, res.result),
                                              !.ret = NoReturn]]
    /\ UNCHANGED <<now, settleVars, basketVars, checked, wallet_rows, checks, auxVars>>

\* The INSERT and commit of create_solana_payment; stored is FALSE when the
\* database refuses the write for a reason of its own.  Any exception returns
\* internal_server_error.
IssueInsert(c, stored) ==
    /\ issue[c].pc = "insert"
    /\ LET o == issue[c].order
           row == [public_key |-> issue[c].key, expected_amount |-> issue[c].expected,
                   eur |-> issue[c].eur, price |-> issue[c].price]
       IN IF stored /\ UniqueOrderId(wallet_rows, o)
          THEN /\ wallet_rows' = [wallet_rows EXCEPT ![o] = @ \cup {row}]
               /\ issue' = [issue EXCEPT ![c].pc = "idle",
                                         ![c].ret = ReturnWallet(row.public_key,
                                                                 row.expected_amount)]
          ELSE /\ wallet_rows' = InsertRefused(wallet_rows, o, row)
               /\ issue' = [issue EXCEPT ![c].pc = "idle",
                                         ![c].ret = ReturnError("internal_server_error")]
    /\ UNCHANGED <<now, settleVars, basketVars, checked, priceVars, checks, auxVars>>

\* ------------------------------------------------------- balance checks

\* asyncio.Semaphore(10)
WALLET_CHECK_SLOTS == 10
\* Pending wallets a pass finds at most.
MaxPendingWallets == 11

\* _check_single_wallet tasks inside "async with _WALLET_CHECK_SEMAPHORE".
InFlight(ws) ==
    LET RECURSIVE Sum(_)
        Sum(S) == IF S = {} THEN 0
                  ELSE LET w == CHOOSE x \in S : TRUE
                       IN checks[w].checking + Sum(S \ {w})
    IN Sum(ws)

\* Every task enters at once.
SemaphoreFreeAlways(w) == TRUE
\* _WALLET_CHECK_SEMAPHORE has a free slot for a task of pass w: the passes of
\* one event loop share the semaphore of the module.
SemaphoreFree(w) ==
    IF sharedLoop THEN InFlight(Workers) < WALLET_CHECK_SLOTS
    ELSE checks[w].checking < WALLET_CHECK_SLOTS

\* Lines 508-510: the pass creates one _check_single_wallet task for each of
\* the n pending wallets and gathers them.
GatherChecks(w, n) ==
    /\ checks[w] = NoChecks
    /\ checks' = [checks EXCEPT ![w] = [waiting |-> n, checking |-> 0]]
    /\ UNCHANGED <<now, settleVars, basketVars, checked, priceVars, issueVars, auxVars>>

\* async with _WALLET_CHECK_SEMAPHORE: a task takes a slot.
EnterCheck(w) ==
    /\ checks[w].waiting > 0
    /\ SemaphoreFree(w)
    /\ checks' = [checks EXCEPT ![w].waiting = @ - 1, ![w].checking = @ + 1]
    /\ UNCHANGED <<now, settleVars, basketVars, checked, priceVars, issueVars, auxVars>>

\* The task returns its result (or None) and gives the slot back.
LeaveCheck(w) ==
    /\ checks[w].checking > 0
    /\ checks' = [checks EXCEPT ![w].checking = @ - 1]
    /\ UNCHANGED <<now, settleVars, basketVars, checked, priceVars, issueVars, auxVars>>

\* ------------------------------------------------------- specifications

\* Orders are created, time passes, payers pay.
EnvNext ==
    \/ \E o \in MainOrders : \/ CreateOrder(o, TRUE, <<"p1", "p2">>)
                             \/ CreateOrder(o, FALSE, <<>>)
    \/ \E d \in TickSteps : Tick(d)
    \/ \E o \in MainOrders, v \in PayLevels : Deposit(o, v)

\* The scan passes of the workers in ws, and the sweep tasks they create.
ScanNext(ws) ==
    \/ \E w \in ws, ok \in SUBSET Orders : StartPass(w, ok)
    \/ \E w \in ws : \E r \in scan[w].results : PaidGuard(w, r)
    \/ \E w \in ws : \E r \in scan[w].results : UnderpaidGuard(w, r)
    \/ \E w \in ws : \E r \in scan[w].results : ExpiredUpdate(w, r, TRUE)
    \/ \E w \in ws, price \in SpotPrices : PaidUpdate(w, price, TRUE, TRUE)
    \/ \E w \in ws, price \in SpotPrices : UnderpaidCredit(w, price)
    \/ \E w \in ws : PaidDeliver(w, "ok")
    \/ \E w \in ws : PaidRemove(w)
    \/ \E w \in ws : EndPass(w)
    \/ \E w \in ws, stored \in BOOLEAN : UnderpaidUpdate(w, stored)
    \/ \E task \in sweeps, fails \in SweepFailures : SweepWallet(task, fails)

\* Cancellation, the timeout cleaner and the recovery job.
JobsNext ==
    \/ \E c \in Callers : RemoveRead(c)
    \/ \E c \in Callers : RemoveDelete(c)
    \/ \E c \in Callers : RemoveUnreserve(c)
    \/ \E o \in MainOrders : Cancel(o)
    \/ CleanerSelect
    \/ \E o \in Orders : CleanerRemove(o)
    \/ RecoverySelect
    \/ \E o \in Orders : RecoverFailedPayment(o)

\* The whole core, one scan pass at a time.
Next == EnvNext \/ ScanNext({"w1"}) \/ JobsNext
InitSerial == Init /\ sharedLoop = TRUE
Spec == InitSerial /\ [][Next]_vars

\* Overlapping scan passes (sharedLoop) or separate workers on one database.
NextScan == EnvNext \/ ScanNext(Workers)
SpecScan == Init /\ [][NextScan]_vars
\* Overlapping scan passes of one event loop.
SpecLoop == InitSerial /\ [][NextScan]_vars

\* Purchase orders that share a product, next to a shopper's basket and
\* tracked reservation, with the jobs that release holds.
HoldsPayLevels == {ExpectedUnits * LamportsPerUnit}
NextHolds ==
    \/ \E o \in Orders : CreateOrder(o, TRUE, <<"p1">>)
    \/ \E d \in TickSteps : Tick(d)
    \/ \E o \in MainOrders, v \in HoldsPayLevels : Deposit(o, v)
    \/ \E ok \in SUBSET Orders : StartPass("w1", ok)
    \/ \E r \in scan["w1"].results : PaidGuard("w1", r)
    \/ \E r \in scan["w1"].results : ExpiredUpdate("w1", r, TRUE)
    \/ \E price \in SpotPrices : PaidUpdate("w1", price, TRUE, TRUE)
    \/ PaidDeliver("w1", "ok")
    \/ PaidRemove("w1")
    \/ EndPass("w1")
    \/ CleanerSelect
    \/ \E o \in Orders : CleanerRemove(o)
    \/ RemoveRead("cleaner")
    \/ RemoveDelete("cleaner")
    \/ RemoveUnreserve("cleaner")
    \/ AddToBasket("p1")
    \/ ClearExpiredBasket
    \/ BasketSweepFetch
    \/ BasketSweepUpdate
    \/ TrackReservation("p1")
    \/ CleanAbandonedReservations
SpecHolds == InitSerial /\ [][NextHolds]_vars

\* The wallet check alone, over expected amounts (units of 0.00001 SOL),
\* balances around the tolerance boundary and wallet ages (minutes).
ClassifyExpected == {0, 1, 2, 3, 50, 100, 101}
ClassifyAges == {0, 20, 21, 200}
\* expected * 0.97 in lamports (a whole number for every expected amount).
ToleranceLamports(expected) == (expected * LamportsPerUnit * TolerancePercent) \div 100
ClassifyBalances(expected) ==
    {b \in {0, 1, ToleranceLamports(expected) - 1, ToleranceLamports(expected),
            ToleranceLamports(expected) + 1, expected * LamportsPerUnit} : b >= 0}
NextClassify ==
    \E expected \in ClassifyExpected, age \in ClassifyAges :
        \E lamports \in ClassifyBalances(expected) :
            CheckWallet(lamports, expected, now - age)
SpecClassify == InitSerial /\ [][NextClassify]_vars

\* The price oracle alone: calls, restarts and the clock.
PriceTickSteps == {5, 60}
MaxPriceElapsed == 75
NextPrice ==
    \/ \E outcomes \in ApiOutcomes : GetSolPriceEur(outcomes)
    \/ \E outcomes \in ApiOutcomes : RefreshPriceCache(outcomes)
    \/ Restart
    \/ \E d \in PriceTickSteps : now + d <= StartNow + MaxPriceElapsed /\ Tick(d)
SpecPrice == InitSerial /\ [][NextPrice]_vars

\* Wallet issuance by two callers, with the price oracle it consults.
\* During issuance the live sources all answer or all fail.
IssueApiOutcomes == {f \in ApiOutcomes : \A a \in Apis : f[a] = f[0]}
NextIssue ==
    \/ \E c \in Issuers, o \in Orders, eur \in IssueEurCents, outcomes \in IssueApiOutcomes :
          IssueBegin(c, o, eur, outcomes)
    \/ \E c \in Issuers, stored \in BOOLEAN : IssueInsert(c, stored)
    \/ (\A c \in Issuers : issue[c].pc = "idle") /\ Restart
SpecIssue == InitSerial /\ [][NextIssue]_vars

\* One order through settlement with everything that can go wrong in it:
\* payments around the overpayment threshold, spot prices that round the
\* surplus to nothing, storage errors, and a lookup or callback that raises.
SettlePayLevels == {(ExpectedUnits * LamportsPerUnit * TolerancePercent) \div 100,
                    ExpectedUnits * LamportsPerUnit,
                    ExpectedUnits * LamportsPerUnit + OverpayDustLamports,
                    ExpectedUnits * LamportsPerUnit + OverpayDustLamports + 1,
                    ExpectedUnits * LamportsPerUnit + OverpayDustLamports + 100000}
SettlePrices == {0, 1, 100}
NextSettle ==
    \/ \E o \in MainOrders : \/ CreateOrder(o, TRUE, <<"p1", "p2">>)
                             \/ CreateOrder(o, FALSE, <<>>)
    \/ \E d \in TickSteps : Tick(d)
    \/ \E o \in MainOrders, v \in SettlePayLevels : Deposit(o, v)
    \/ \E ok \in SUBSET Orders : StartPass("w1", ok)
    \/ \E r \in scan["w1"].results : PaidGuard("w1", r)
    \/ \E r \in scan["w1"].results, stored \in BOOLEAN : ExpiredUpdate("w1", r, stored)
    \/ \E price \in SettlePrices, stored \in BOOLEAN, credit_ok \in BOOLEAN :
          PaidUpdate("w1", price, stored, credit_ok)
    \/ \E outcome \in DeliverOutcomes : PaidDeliver("w1", outcome)
    \/ PaidRemove("w1")
    \/ EndPass("w1")
    \/ \E task \in sweeps, fails \in SweepFailures : SweepWallet(task, fails)
    \/ \E o \in MainOrders : Cancel(o)
    \/ RemoveRead("cancel")
    \/ RemoveDelete("cancel")
    \/ RemoveUnreserve("cancel")
SpecSettle == InitSerial /\ [][NextSettle]_vars

\* The balance checks of overlapping passes in one event loop.
NextChecks ==
    \/ \E w \in Workers, n \in 1..MaxPendingWallets : GatherChecks(w, n)
    \/ \E w \in Workers : EnterCheck(w)
    \/ \E w \in Workers : LeaveCheck(w)
SpecChecks == InitSerial /\ [][NextChecks]_vars

\* One scan pass at a time over two refill orders whose balance reads may fail.
NextRpc ==
    \/ \E o \in Orders : CreateOrder(o, FALSE, <<>>)
    \/ \E d \in TickSteps : Tick(d)
    \/ \E o \in Orders, v \in PayLevels : Deposit(o, v)
    \/ \E ok \in SUBSET Orders : StartPass("w1", ok)
    \/ \E r \in scan["w1"].results : PaidGuard("w1", r)
    \/ \E r \in scan["w1"].results : UnderpaidGuard("w1", r)
    \/ \E r \in scan["w1"].results : ExpiredUpdate("w1", r, TRUE)
    \/ \E price \in SpotPrices : PaidUpdate("w1", price, TRUE, TRUE)
    \/ \E price \in SpotPrices : UnderpaidCredit("w1", price)
    \/ PaidDeliver("w1", "ok")
    \/ PaidRemove("w1")
    \/ UnderpaidUpdate("w1", TRUE)
    \/ EndPass("w1")
    \/ \E task \in sweeps, fails \in SweepFailures : SweepWallet(task, fails)
SpecRpc == InitSerial /\ [][NextRpc]_vars

\* Scan passes that keep coming over one refill order.  Balance reads, the
\* price and the status writes may fail, and each succeeds again and again.
\* The lowest balance is dust: at 100 EUR/SOL it converts to 0.00 EUR.
LivePayLevels == {10000,
                  (ExpectedUnits * LamportsPerUnit * TolerancePercent) \div 100 - 1,
                  ExpectedUnits * LamportsPerUnit}
LivePrice == CHOOSE p \in SpotPrices : p # 0
StartPassAll(w) == StartPass(w, {o \in Orders : solana_wallets[o].status = "pending"})
NextLive ==
    \/ \E o \in MainOrders : CreateOrder(o, FALSE, <<>>)
    \/ \E d \in TickSteps : Tick(d)
    \/ \E o \in MainOrders, v \in LivePayLevels : Deposit(o, v)
    \/ \E ok \in SUBSET Orders : StartPass("w1", ok)
    \/ \E r \in scan["w1"].results : PaidGuard("w1", r)
    \/ \E r \in scan["w1"].results : UnderpaidGuard("w1", r)
    \/ \E r \in scan["w1"].results, stored \in BOOLEAN : ExpiredUpdate("w1", r, stored)
    \/ \E stored \in BOOLEAN : PaidUpdate("w1", LivePrice, stored, TRUE)
    \/ \E price \in SpotPrices : UnderpaidCredit("w1", price)
    \/ PaidDeliver("w1", "ok")
    \/ PaidRemove("w1")
    \/ UnderpaidUpdate("w1", TRUE)
    \/ EndPass("w1")
    \/ \E task \in sweeps, fails \in SweepFailures : SweepWallet(task, fails)
\* The job queue runs check_solana_deposits again and again, every pass runs
\* to its end, and the calls that can fail succeed infinitely often.
FairPasses ==
    /\ SF_vars(StartPassAll("w1"))
    /\ WF_vars(\E r \in scan["w1"].results : PaidGuard("w1", r))
    /\ WF_vars(\E r \in scan["w1"].results : UnderpaidGuard("w1", r))
    /\ SF_vars(\E r \in scan["w1"].results : ExpiredUpdate("w1", r, TRUE))
    /\ SF_vars(PaidUpdate("w1", LivePrice, TRUE, TRUE))
    /\ SF_vars(UnderpaidCredit("w1", LivePrice))
    /\ WF_vars(PaidDeliver("w1", "ok"))
    /\ WF_vars(PaidRemove("w1"))
    /\ WF_vars(UnderpaidUpdate("w1", TRUE))
    /\ WF_vars(EndPass("w1"))
SpecLive == InitSerial /\ [][NextLive]_vars /\ FairPasses

\* Scan passes and sweep tasks over one refill order: every pass runs to its
\* end, a sweep task may fail on the ledger or be lost in a crash, and ledger
\* calls succeed again and again.
NextSweep ==
    \/ \E o \in MainOrders : CreateOrder(o, FALSE, <<>>)
    \/ \E d \in TickSteps : Tick(d)
    \/ \E o \in MainOrders, v \in PayLevels : Deposit(o, v)
    \/ \E ok \in SUBSET Orders : StartPass("w1", ok)
    \/ \E r \in scan["w1"].results : PaidGuard("w1", r)
    \/ \E r \in scan["w1"].results : UnderpaidGuard("w1", r)
    \/ \E r \in scan["w1"].results : ExpiredUpdate("w1", r, TRUE)
    \/ PaidUpdate("w1", LivePrice, TRUE, TRUE)
    \/ UnderpaidCredit("w1", LivePrice)
    \/ PaidDeliver("w1", "ok")
    \/ PaidRemove("w1")
    \/ UnderpaidUpdate("w1", TRUE)
    \/ EndPass("w1")
    \/ \E task \in sweeps, fails \in SweepFailures : SweepWallet(task, fails)
    \/ CrashBetweenPasses
FairSweeps ==
    /\ SF_vars(StartPassAll("w1"))
    /\ WF_vars(\E r \in scan["w1"].results : PaidGuard("w1", r))
    /\ WF_vars(\E r \in scan["w1"].results : UnderpaidGuard("w1", r))
    /\ WF_vars(\E r \in scan["w1"].results : ExpiredUpdate("w1", r, TRUE))
    /\ WF_vars(PaidUpdate("w1", LivePrice, TRUE, TRUE))
    /\ WF_vars(UnderpaidCredit("w1", LivePrice))
    /\ WF_vars(PaidDeliver("w1", "ok"))
    /\ WF_vars(PaidRemove("w1"))
    /\ WF_vars(UnderpaidUpdate("w1", TRUE))
    /\ WF_vars(EndPass("w1"))
    /\ SF_vars(\E task \in sweeps : SweepWallet(task, "none"))
SpecSweep == InitSerial /\ [][NextSweep]_vars /\ FairSweeps

\* sweep_wallet on its own, over balances around the dust threshold and the fee.
SweepBalances == {0, SweepDustLamports - 1, SweepDustLamports, SweepDustLamports + 1,
                  ExpectedUnits * LamportsPerUnit}
SweepStatuses == {"pending", "paid"}
NextSweepRule ==
    \E dict_status \in SweepStatuses, given \in SweepBalances, balance \in SweepBalances,
       read_ok \in BOOLEAN, blockhash_ok \in BOOLEAN, send_ok \in BOOLEAN :
        SweepOnce(dict_status, given, balance, read_ok, blockhash_ok, send_ok)
SpecSweepRule == InitSerial /\ [][NextSweepRule]_vars

\* remove_pending_deposit on its own: two callers, any order and any trigger,
\* for purchase orders and refills.
RemoveTriggers == {"cancel", "timeout_expiry", "crypto_payment_success",
                   "recovery_success"}
NextRemove ==
    \/ \E o \in Orders : \/ CreateOrder(o, TRUE, <<"p1", "p2">>)
                         \/ CreateOrder(o, FALSE, <<>>)
    \/ \E c \in Callers, o \in Orders, trigger \in RemoveTriggers : CallRemove(c, o, trigger)
    \/ \E c \in Callers : RemoveRead(c)
    \/ \E c \in Callers : RemoveDelete(c)
    \/ \E c \in Callers : RemoveUnreserve(c)
SpecRemove == InitSerial /\ [][NextRemove]_vars

\* The health check on its own, over counts of stuck and recent purchase orders.
NextHealth ==
    \E db_ok \in BOOLEAN, stuck_payments \in 0..MaxStuck, recent_payments \in 0..MaxRecent,
       admin \in BOOLEAN :
        CheckHealth(db_ok, stuck_payments, recent_payments, admin)
SpecHealth == InitSerial /\ [][NextHealth]_vars

\* The payment queue on its own: any sequence of its three calls.
NextQueue ==
    \/ \E id \in PaymentIds : QueuePaymentAction(id)
    \/ GetPendingQueueItems
    \/ \E id \in PaymentIds, success \in BOOLEAN : MarkQueueItemProcessed(id, success)
SpecQueue == InitSerial /\ [][NextQueue]_vars

\* ------------------------------------------------------------------ claims

\* A settlement of order o has taken its result and not yet returned.
Settling(o) == \E w \in Workers : scan[w].cur.order = o
\* A remove_pending_deposit call for order o is queued or under way.
Removing(o) ==
    \/ \E c \in Callers : removal[c].pc # "idle" /\ removal[c].order = o
    \/ o \in cleaner
\* The wallet of o was settled as underpaid ('refunded' in the code) or expired.
NonPaidTerminal(o) == solana_wallets[o].status \in {"refunded", "expired"}

\* C1: a purchase order that ended in a non-paid terminal state (wallet
\* underpaid or expired, order record gone, nothing for it under way) has had
\* the holds of its line items released exactly once.
C1_ReleasedExactlyOnce ==
    \A o \in Orders :
        (/\ hist[o].acquired = 1
         /\ NonPaidTerminal(o)
         /\ ~pending_deposits[o].present
         /\ ~Settling(o)
         /\ ~Removing(o))
        => hist[o].released = 1

C4_RecoveredOnlyIfPaid ==
    \A o \in Orders :
        hist[o].recovery_calls > 0 => solana_wallets[o].status \in {"paid", "swept"}

\* C5: an underpaid wallet leads to at most one balance credit, also when the
\* status write after the credit fails and the wallet is scanned again.
C5_OneUnderpayCredit == \A o \in Orders : hist[o].underpay_credits <= 1

\* C6: a wallet's status leaves pending only to paid, underpaid ('refunded' in
\* the code) or expired; it never returns to pending or moves between those
\* three, and the only later change is the sweep marking it swept.
C6_StatusTransitions ==
    [][\A o \in Orders :
          LET old == solana_wallets[o].status
              new == solana_wallets'[o].status
          IN old # new =>
                \/ old = "none" /\ new = "pending"
                \/ old = "pending" /\ new \in {"paid", "refunded", "expired"}
                \/ old \in {"paid", "refunded", "expired"} /\ new = "swept"]_vars

\* A settlement attempt still holds a result for a wallet that has already
\* left pending and been swept.
C6_StaleAttemptOnSweptWallet ==
    \E o \in Orders, w \in Workers :
        /\ solana_wallets[o].status = "swept"
        /\ \E r \in scan[w].results : r.order = o

\* C7: no order is both delivered and has its holds released by
\* remove_pending_deposit under a non-success trigger; here the trigger of the
\* timeout cleaner.
C7_NotDeliveredAndReleased ==
    \A o \in Orders :
        ~(/\ hist[o].delivered > 0
          /\ hist[o].released > 0
          /\ hist[o].released_by = "timeout_expiry")

\* C8: once settlement has moved a wallet to underpaid or expired and has
\* returned, no order record remains for that wallet.
C8_TerminalWalletHasNoOrder ==
    \A o \in Orders :
        (NonPaidTerminal(o) /\ ~Settling(o)) => ~pending_deposits[o].present
\* Purchase orders whose record exists and that have not been delivered.
LiveOrders ==
    {o \in Orders : /\ pending_deposits[o].present
                    /\ pending_deposits[o].is_purchase
                    /\ hist[o].delivered = 0}
RECURSIVE LiveHolds(_, _)
\* The number of line items of the orders in S that are units of product p.
LiveHolds(S, p) ==
    IF S = {} THEN 0
    ELSE LET o == CHOOSE x \in S : TRUE
         IN CountOf(pending_deposits[o].basket_snapshot, p) + LiveHolds(S \ {o}, p)

\* C9: while a purchase order record exists and has not been successfully
\* settled, each of its line items is still counted in the reserved count of
\* its product: no job has decremented a hold a live order relies on.
C9_LiveOrderHoldsCounted ==
    \A p \in Products : reserved[p] >= LiveHolds(LiveOrders, p)
\* C10: the wallet check returns Paid exactly when the balance is positive and
\* at least expected * 0.97, and Underpaid exactly when the balance is positive
\* and below expected * 0.97, whatever the wallet's age.
C10_ToleranceClassification ==
    checked.done =>
        /\ checked.action = "paid"
             <=> (checked.lamports > 0
                  /\ checked.lamports >= ToleranceLamports(checked.expected))
        /\ checked.action = "underpaid"
             <=> (checked.lamports > 0
                  /\ checked.lamports < ToleranceLamports(checked.expected))

\* A wallet past the expiry age whose balance is exactly expected * 0.97 was
\* checked and classified Paid.
C10_BoundaryPaidWhenOld ==
    /\ checked.done
    /\ checked.expected > 0
    /\ checked.lamports = ToleranceLamports(checked.expected)
    /\ checked.age > WalletExpiryMinutes
    /\ checked.action = "paid"
\* C11: a wallet with zero balance is classified Expired exactly when its age
\* is strictly greater than the 20-minute window and yields no action at or
\* below the window; a wallet with a positive balance is never Expired.
C11_ExpiryClassification ==
    checked.done =>
        /\ checked.action = "expired"
             <=> (checked.lamports = 0 /\ checked.age > WalletExpiryMinutes)
        /\ checked.action = "none"
             <=> (checked.lamports = 0 /\ checked.age <= WalletExpiryMinutes)

\* An empty wallet whose age is exactly the window was checked and yielded no
\* action.
C11_EmptyAtWindowNoAction ==
    /\ checked.done
    /\ checked.lamports = 0
    /\ checked.age = WalletExpiryMinutes
    /\ checked.action = "none"

\* C13: price resolution asks no live source when the in-process entry is
\* younger than 5 minutes, nor when that entry is stale but the price was
\* saved to the durable cache less than 10 minutes before the call.
C13_NoLiveFetchWhenCached ==
    price_call.done =>
        (   \/ price_call.memory_fresh
            \/ price_call.saved_age \in 0..(DbCacheTtlMinutes - 1)
         => price_call.live = <<>>)

\* C14: a call served by a live source has tried the sources in rotation up to
\* the first that answered, and has written that price to the in-process cache
\* and to the durable cache row.
C14_LiveResultWrittenThrough ==
    (price_call.done /\ price_call.source = "live") =>
        /\ price_call.live # <<>>
        /\ price_cache.price = price_call.result
        /\ price_cache.timestamp = price_call.saved_at
        /\ price_cache.last_api_used = price_call.live[Len(price_call.live)]
        /\ bot_settings.present
        /\ bot_settings.setting_value = price_call.result
        /\ bot_settings.updated_at = price_call.saved_at

\* C12: wallet issuance is idempotent per order: an order never has more than
\* one wallet row, and every successful create_solana_payment call returned the
\* public key and expected amount of the one row of its order.
C12_IssuanceIdempotent ==
    /\ \A o \in Orders : Cardinality(wallet_rows[o]) <= 1
    /\ \A c \in Issuers :
          issue[c].ret.status = "ok" =>
              /\ Cardinality(wallet_rows[issue[c].order]) = 1
              /\ \A row \in wallet_rows[issue[c].order] :
                    /\ row.public_key = issue[c].ret.pay_address
                    /\ row.expected_amount = issue[c].ret.pay_amount
C12_RepeatCallReturnsExisting ==
    \E c \in Issuers :
        /\ issue[c].pc = "idle" /\ issue[c].ret.status = "ok"
        /\ issue[c].key # <<>>
        /\ issue[c].key # issue[c].ret.pay_address
        /\ \E d \in Issuers : d # c /\ issue[d].ret.status = "error"
                                /\ issue[d].ret.error = "internal_server_error"
                                /\ issue[d].order = issue[c].order

\* C16: the expected amount stored at issuance is fiat_amount / price rounded
\* down to 5 decimals, so that expected_amount * price never exceeds the fiat
\* amount requested.
C16_ExpectedAmountRoundedDown ==
    \A o \in Orders : \A row \in wallet_rows[o] :
        /\ row.expected_amount = (row.eur * UnitsPerCent) \div row.price
        /\ row.expected_amount * row.price <= row.eur * UnitsPerCent

\* C15: on a paid settlement the overpayment credit is awaited exactly when the
\* surplus over the expected amount exceeds 0.0005 SOL, a price is available and
\* the surplus at that price rounds to a positive number of cents; the amount
\* credited is the surplus at the spot price to the nearest cent.  A payment at
\* or below the expected amount, or above it by no more than the threshold,
\* produces no credit.
C15_OverpaymentCredit ==
    \A o \in Orders :
        hist[o].paid_writes >= 1 =>
            LET surplus == solana_wallets[o].amount_received
                             - solana_wallets[o].expected_amount * LamportsPerUnit
                price == hist[o].overpay_price
                cent == LAMPORTS_PER_SOL \div 100
                cents == IF surplus > OverpayDustLamports /\ price > 0
                         THEN QuantizeCents(surplus, price) ELSE 0
            IN /\ hist[o].overpay_credits = IF cents > 0 THEN 1 ELSE 0
               /\ hist[o].overpay_cents = cents
               /\ 2 * (cents * cent - surplus * price) \in -cent .. cent
               /\ surplus <= OverpayDustLamports =>
                     hist[o].overpay_credits = 0 /\ price = -1
C15_CreditJustAboveThreshold ==
    \E o \in Orders :
        /\ hist[o].paid_writes = 1
        /\ solana_wallets[o].amount_received =
              solana_wallets[o].expected_amount * LamportsPerUnit + OverpayDustLamports + 1
        /\ hist[o].overpay_credits = 1
        /\ hist[o].overpay_cents = 5

\* C17: for an underpaid result the wallet's terminal status is written and
\* committed before the balance credit is awaited: a wallet that has been
\* credited for an underpayment is no longer pending.
C17_StatusWrittenBeforeCredit ==
    \A o \in Orders :
        hist[o].underpay_credits > 0 => solana_wallets[o].status # "pending"

\* C18: when the overpayment credit, the order lookup or the success callback
\* raises after the wallet was marked paid, the wallet stays paid (or swept)
\* with the received amount recorded; it is not rolled back to pending.
C18_PaidSurvivesCallbackFailure ==
    \A o \in Orders :
        (hist[o].credit_failed \/ hist[o].lookup_failed \/ hist[o].callback_failed) =>
            /\ solana_wallets[o].status \in {"paid", "swept"}
            /\ hist[o].paid_writes = 1
            /\ solana_wallets[o].amount_received > 0
            /\ solana_wallets[o].amount_received * 100 >=
                  solana_wallets[o].expected_amount * LamportsPerUnit * TolerancePercent
C18_CallbackRaisedWalletPaid ==
    \E o \in Orders :
        /\ hist[o].callback_failed
        /\ ~Settling(o)
        /\ solana_wallets[o].status = "paid"
        /\ pending_deposits[o].present

\* C19: a storage error while settlement writes the wallet's new status leaves
\* the wallet row as it was, pending; a later pass can settle it.
C19_FailedWriteLeavesPending ==
    [][\A o \in Orders :
          hist'[o].write_failures > hist[o].write_failures =>
              /\ solana_wallets[o].status = "pending"
              /\ solana_wallets' = solana_wallets]_vars
C19_SettledAfterFailedWrite ==
    \E o \in Orders :
        /\ hist[o].write_failures >= 1
        /\ hist[o].paid_writes = 1
        /\ solana_wallets[o].status = "paid"

\* C20: once a wallet is marked paid and its settlement has ended without the
\* callback raising, the order found at the lookup has had exactly one success
\* callback, chosen by its kind (delivery with the snapshot and the discount
\* code, refill with the full target amount), and its record is deleted.
C20_OneCallbackThenOrderDeleted ==
    \A o \in Orders :
        (hist[o].paid_writes >= 1 /\ ~Settling(o) /\ ~hist[o].callback_failed) =>
            /\ ~pending_deposits[o].present
            /\ hist[o].delivered + hist[o].refill_credits <= 1
            /\ hist[o].callback.kind = "delivery" =>
                  /\ hist[o].callback.row.is_purchase
                  /\ hist[o].delivered = 1 /\ hist[o].refill_credits = 0
                  /\ hist[o].callback.snapshot = hist[o].callback.row.basket_snapshot
                  /\ hist[o].callback.discount = hist[o].callback.row.discount_code_used
            /\ hist[o].callback.kind = "refill" =>
                  /\ ~hist[o].callback.row.is_purchase
                  /\ hist[o].delivered = 0 /\ hist[o].refill_credits = 1
                  /\ hist[o].callback.amount = hist[o].callback.row.target_eur_amount

\* C21: when a wallet is marked paid and the lookup finds no order record,
\* neither the delivery callback nor the refill credit is invoked for it, then
\* or in any later pass, and the wallet stays paid (or swept).
C21_NoDeliveryWithoutOrder ==
    \A o \in Orders :
        hist[o].order_missing =>
            /\ hist[o].callback.kind = "none"
            /\ hist[o].delivered = 0 /\ hist[o].refill_credits = 0
            /\ hist[o].recovery_calls = 0
            /\ ~hist[o].callback_failed
            /\ solana_wallets[o].status \in {"paid", "swept"}
            /\ ~pending_deposits[o].present
C21_PaidWithoutOrderSwept ==
    \E o \in Orders :
        /\ hist[o].order_missing /\ ~hist[o].lookup_failed
        /\ hist[o].acquired = 1
        /\ solana_wallets[o].status = "swept"

\* C22: a create_solana_payment call for an order that already has a wallet
\* when the call starts returns that wallet, whether or not the price oracle
\* has a price.
C22_ExistingWalletNeedsNoPrice ==
    \A c \in Issuers :
        (issue[c].pc = "idle" /\ issue[c].existed) =>
            /\ issue[c].ret.status = "ok"
            /\ \E row \in wallet_rows[issue[c].order] :
                  row.public_key = issue[c].ret.pay_address

\* C23: a create_solana_payment call that found no price, or whose insert
\* failed, returns an error and persists no wallet: the wallet rows are as they
\* were before the step that failed.
C23_ErrorPersistsNothing ==
    [][\A c \in Issuers :
          (issue'[c].ret.status = "error" /\ issue'[c] # issue[c]) =>
              /\ wallet_rows' = wallet_rows
              /\ issue'[c].pc = "idle"
              /\ \A o \in Orders : \A row \in wallet_rows'[o] :
                    row.public_key # issue'[c].key \/ issue'[c].key = <<>>]_vars
C23_PriceUnavailableNoWallet ==
    \E c \in Issuers :
        /\ issue[c].ret.status = "error" /\ issue[c].ret.error = "estimate_failed"
        /\ ~issue[c].existed
        /\ wallet_rows[issue[c].order] = {}
        /\ \E d \in Issuers : issue[d].ret.status = "error"
                                /\ issue[d].ret.error = "internal_server_error"

C26_FailedRefreshRestoresCache ==
    (price_call.refresh.done /\ ~price_call.refresh.ok) =>
        /\ price_cache.price = price_call.refresh.before.price
        /\ price_cache.timestamp = price_call.refresh.before.timestamp
        /\ price_cache = price_call.refresh.before
C26_FreshEntrySurvivesFailedRefresh ==
    /\ price_call.refresh.done /\ ~price_call.refresh.ok
    /\ price_call.refresh.before.price # 0
    /\ MemoryFresh(price_cache, now)
    /\ Len(price_call.live) = ApiCount

\* C27: at every moment at most 10 wallet balance checks are in flight, however
\* many wallets are pending and also when scan passes overlap.
C27_AtMostTenChecksInFlight ==
    /\ InFlight(Workers) <= WALLET_CHECK_SLOTS
    /\ \A w \in Workers : checks[w].checking >= 0 /\ checks[w].waiting >= 0
C27_SlotsFullTaskWaiting ==
    /\ InFlight(Workers) = WALLET_CHECK_SLOTS
    /\ \A w \in Workers : checks[w].checking > 0
    /\ \E w \in Workers : checks[w].waiting > 0

\* C28: settlements run one at a time: at no moment are two settlement
\* attempts of the passes of one event loop inside the settlement section, and
\* the attempt inside it holds the lock.
InSettlement(w) ==
    scan[w].pc \in {"paid_update", "paid_deliver", "paid_remove",
                    "under_credit", "under_update"}
C28_SettlementsSerial ==
    /\ Cardinality({w \in Workers : InSettlement(w)}) <= 1
    /\ \A w \in Workers : InSettlement(w) => lock = w
    /\ lock # "free" => InSettlement(lock)
C28_SecondAttemptWaits ==
    \E w, v \in Workers :
        /\ w # v
        /\ InSettlement(w) /\ scan[w].pc = "paid_deliver"
        /\ scan[v].pc = "results"
        /\ \E r \in scan[v].results : r.order = scan[w].cur.order /\ r.action = "paid"

\* C29: a ledger RPC error while checking one wallet produces no scan result
\* for that wallet and leaves its status pending for the whole pass, and every
\* other pending wallet of the pass that calls for an action is classified and
\* gets its result.
C29_PassStarts(w) == scan[w].pc = "idle" /\ scan'[w].pc = "results"
C29_RpcErrorSkipsOnlyThatWallet ==
    /\ [](\A w \in Workers : \A o \in scan[w].skipped :
              /\ solana_wallets[o].status = "pending"
              /\ scan[w].cur.order # o
              /\ \A r \in scan[w].results : r.order # o)
    /\ [][\A w \in Workers : C29_PassStarts(w) =>
              \A o \in Orders :
                  (/\ solana_wallets[o].status = "pending"
                   /\ o \notin scan'[w].skipped
                   /\ ResultOf(o).action # "none")
                  => ResultOf(o) \in scan'[w].results]_vars
C29_OtherWalletSettledInSamePass ==
    \E o, q \in Orders :
        /\ o # q
        /\ scan["w1"].skipped = {q}
        /\ chain[q] > 0
        /\ solana_wallets[q].status = "pending"
        /\ solana_wallets[o].status = "paid"
        /\ hist[o].refill_credits = 1

\* C30: under fair scan passes whose ledger, price and storage calls succeed
\* again and again, every pending wallet that holds a positive balance or is
\* older than the expiry window eventually leaves the pending state.
C30_PendingWalletLeaves ==
    \A o \in MainOrders :
        (/\ solana_wallets[o].status = "pending"
         /\ \/ chain[o] > 0
            \/ now - solana_wallets[o].created_at > WalletExpiryMinutes)
        ~> (solana_wallets[o].status # "pending")

\* C31: with automatic sweeping on and an operator wallet configured, every
\* wallet that is marked paid is eventually marked swept, under fair scan
\* passes and ledger calls that succeed again and again, also after a crash
\* between marking paid and sweeping.
C31_PaidEventuallySwept ==
    \A o \in MainOrders :
        (solana_wallets[o].status = "paid") ~> (solana_wallets[o].status = "swept")

\* C32: a sweep attempt that fails leaves the wallet's status as it was, and
\* the recovery sub-pass at the end of a scan pass queues a new sweep for every
\* wallet that is paid or underpaid ('refunded' in the code) and not yet swept.
C32_SweepFails ==
    \E t \in sweeps \ sweeps' :
        /\ chain' = chain
        /\ (IF t.lamports = 0 THEN chain[t.order] ELSE t.lamports) >= SweepDustLamports
C32_RecoveryPassEnds(w) == scan[w].pc = "results" /\ scan'[w].pc = "idle"
C32_FailedSweepRetried ==
    /\ [][C32_SweepFails => solana_wallets' = solana_wallets]_vars
    /\ [][\A w \in Workers : C32_RecoveryPassEnds(w) =>
              \A o \in Orders :
                  solana_wallets'[o].status \in {"paid", "refunded"}
                  => \E t \in sweeps' : t.order = o]_vars

C34_SweptOnlyAfterTransferOrDust ==
    [][\A o \in Orders :
          solana_wallets'[o].status = "swept" /\ solana_wallets[o].status # "swept"
          => \E t \in sweeps \ sweeps' :
                /\ t.order = o
                /\ \/ chain'[o] < chain[o]
                   \/ /\ t.lamports = 0
                      /\ chain[o] < SweepDustLamports
                      /\ t.status = "paid"
                      /\ solana_wallets[o].status = "paid"]_vars
C34_SweptAfterTransfer ==
    \E o \in Orders :
        /\ solana_wallets[o].status = "swept"
        /\ solana_wallets[o].amount_received > 0
        /\ chain[o] = 0

\* C35: funds that arrive at a pending wallet are not left unprocessed: when a
\* wallet holds a positive balance while its status is pending, then
\* eventually the user is credited or delivered for it, or the wallet is swept.
C35_Processed(o) ==
    \/ hist[o].delivered > 0
    \/ hist[o].refill_credits > 0
    \/ hist[o].underpay_credits > 0
    \/ solana_wallets[o].status = "swept"
C35_FundsAtPendingWalletProcessed ==
    \A o \in MainOrders :
        (solana_wallets[o].status = "pending" /\ chain[o] > 0) ~> C35_Processed(o)

\* C36: the reserved count of every product is at least 0 in every reachable
\* state, also when a snapshot is released although fewer units than it names
\* are still held.
C36_ReservedNeverNegative == \A p \in Products : reserved[p] >= 0
C36_ReleaseOfMoreThanHeld ==
    \E c \in Callers, p \in Products :
        /\ removal[c].pc = "unreserve"
        /\ ShouldUnreserve(removal[c].deleted, removal[c].info, removal[c].trigger)
        /\ CountOf(removal[c].info.basket_snapshot, p) > reserved[p]

\* C37: remove_pending_deposit leaves every reserved count unchanged when it
\* is called with a success trigger, when the order is a refill, or when it
\* deleted no row; a reserved count goes down only in the call that deleted a
\* purchase order under a non-success trigger, and that happens at most once
\* per order.
C37_RemoveReturns(c) == removal[c].pc = "unreserve" /\ removal'[c].pc = "idle"
C37_Releasing(c) ==
    /\ removal[c].deleted
    /\ removal[c].info.is_purchase
    /\ removal[c].trigger \notin successful_triggers
C37_ReleaseOnlyByDeletingCall ==
    /\ [](\A o \in Orders : hist[o].released <= 1)
    /\ [][\A c \in Callers : C37_RemoveReturns(c) /\ ~C37_Releasing(c)
                             => reserved' = reserved]_vars
    /\ [][(\E p \in Products : reserved'[p] < reserved[p])
          => \E c \in Callers : C37_RemoveReturns(c) /\ C37_Releasing(c)]_vars
C37_SecondCallDeletedNothing ==
    \E c \in Callers, p \in Products :
        /\ removal[c].pc = "unreserve"
        /\ ~removal[c].deleted
        /\ removal[c].info.present
        /\ removal[c].info.is_purchase
        /\ removal[c].trigger \notin successful_triggers
        /\ CountOf(removal[c].info.basket_snapshot, p) > 0
        /\ reserved[p] > 0

\* C38: the health check raises an operator alert only when purchase orders
\* are stuck, and when no order is stuck it reports healthy and sends no
\* alert, whatever the recent volume (zero included).
C38_NoAlertWithoutStuckOrders ==
    health.done /\ health.db_ok =>
        /\ health.alert => health.stuck_payments > 0
        /\ health.stuck_payments = 0 => health.is_healthy /\ ~health.alert

\* C39: in the payment queue completed is a terminal status: an item that was
\* once marked completed stays completed, and get_pending_queue_items never
\* returns it again.
C39_CompletedIsTerminal ==
    \A id \in PaymentIds :
        queue_hist[id].completed =>
            /\ payment_queue[id].status = "completed"
            /\ ~queue_hist[id].returned_after

====
